---- MODULE Spec2Model ----
(***************************************************************************)
(* Book generation workflow: the LangGraph state machine of src/graph.py   *)
(* (outline -> chapters -> compile -> notify), its stage functions, the    *)
(* datastore rows they read and write, and an editor who changes gating    *)
(* flags in the datastore while a run is in progress (Spec); the worker of *)
(* worker.py, which discovers books and runs them one after the other      *)
(* (SpecWorker); and the two spreadsheet import adapters (SpecImport).     *)
(*                                                                         *)
(* Texts are sequences of characters so that strip() and the truthiness    *)
(* tests of the code are computed, not assumed.  None (SQL NULL) is the    *)
(* sentinel None for status values and NoText for texts.                   *)
(***************************************************************************)
EXTENDS Integers, Sequences, FiniteSets, TLC

VARIABLES
    books,              \* table "books": book id -> row
    chapters,           \* table "chapters": book id -> chapter number -> row or NoChapter
    chapter_summaries,  \* table "chapter_summaries": book id -> chapter number -> summary or NoText
    notifications,      \* table "notifications": sequence of audit records
    storage,            \* bucket "books-output": set of uploaded file names
    chapter_target,     \* environment variable CHAPTER_TARGET_COUNT, already parsed
    book_id,            \* the --book-id argument of the invocation
    state,              \* the BookState of the current invocation
    pc,                 \* the node or router about to run
    llm_calls,          \* number of chain.invoke() calls made in this invocation
    visited,            \* nodes entered in this invocation, in order
    reads,              \* the gating values read from the datastore so far, in order
    edits,              \* number of editor changes so far
    mode,               \* worker: "ids" (--book-id), "once" (--once) or "loop"; "none" without worker
    limit,              \* worker: the limit argument of run_worker_once
    explicit_ids,       \* worker: the book_ids argument of run_worker_once, <<>> when absent
    wpc,                \* worker: "off" (no worker), "idle" (before a pass), "pass" or "exit"
    pending,            \* worker: the books of the current pass not yet handed to process_book
    batch,              \* worker: the list the current pass iterates over
    processed,          \* worker: the books handed to process_book in the current pass, in order
    polls,              \* worker: number of passes completed
    keyed,              \* per (book id, chapter number): how many records the tables chapters and
                        \* chapter_summaries hold, and what the last chapter stage that returned generated
    catalog,            \* table "books", columns title and sheet_row_id: record id -> entry or NoEntry
    sync,               \* the import in progress: adapter, sheet rows, position, returned ids
    delivery,           \* what the notify of the running invocation came to: e-mail, chat, audit insert
    pdf,                \* what the PDF of the running invocation's compile_book came to
    trail               \* worker: per book of the current pass, the nodes and the event of its run

wvars == <<mode, limit, explicit_ids, wpc, pending, batch, processed, polls, trail>>

\* what the stages of one invocation never touch
ivars == <<catalog, sync>>

auxvars == <<wvars, delivery, keyed, ivars, pdf>>

vars == <<books, chapters, chapter_summaries, notifications, storage,
          chapter_target, book_id, state, pc, llm_calls, visited, reads, edits,
          wvars, delivery, keyed, ivars, pdf>>

dbvars == <<books, chapters, chapter_summaries, notifications, storage>>

----------------------------------------------------------------------------
(* Bounds *)

MaxChapters == 3
MaxEdits == 1
MaxPolls == 2
MaxLimit == 1
MaxRows == 2

\* worker.py 108: the limit of a pass started by run_worker_loop
DefaultLimit == 5

----------------------------------------------------------------------------
(* Values *)

BookIds == {"b1", "b2"}

None == "None"
NoText == <<"None">>

StatusValues == {None, "", "yes", "no", "no_notes_needed"}

\* texts an editor or a spreadsheet cell can hold
TextSamples == {<<>>, <<" ">>, <<"x">>, <<" ", "x", " ">>}

\* texts the language model returns for a chapter, "Summary:" being the marker
ChapterSamples == {<<" ", "x", " ", "Summary:", " ", "s", " ">>}

\* a text it can return when asked for the same chapter again
RewriteSamples == {<<"y", "Summary:", "t">>}

\* text the language model returns for an outline
OutlineSamples == {<<" ", "o", " ">>}

ChapterNumbers == 1..MaxChapters

----------------------------------------------------------------------------
(* Python string helpers *)

\* bool(s) for an Optional[str]
Truthy(s) == s # NoText /\ s # <<>>

\* s or ""
OrEmpty(s) == IF s = NoText THEN <<>> ELSE s

RECURSIVE LStrip(_)
LStrip(s) == IF s # <<>> /\ Head(s) = " " THEN LStrip(Tail(s)) ELSE s

RECURSIVE RStrip(_)
RStrip(s) == IF s # <<>> /\ s[Len(s)] = " " THEN RStrip(SubSeq(s, 1, Len(s) - 1)) ELSE s

\* str.strip()
Strip(s) == RStrip(LStrip(s))

\* index of the first "Summary:" marker, 0 when there is none
RECURSIVE FindMarker(_, _)
FindMarker(s, i) ==
    IF i > Len(s) THEN 0
    ELSE IF s[i] = "Summary:" THEN i
    ELSE FindMarker(s, i + 1)

SummaryPlaceholder == <<"Summary section not found.">>

\* chapters.py 130-135: the chapter body and the summary of a model reply
SplitChapter(text) ==
    LET full == Strip(text)
        m == FindMarker(full, 1)
    IN  IF m = 0
        THEN [content |-> full, summary |-> SummaryPlaceholder]
        ELSE [content |-> Strip(SubSeq(full, 1, m - 1)),
              summary |-> Strip(SubSeq(full, m + 1, Len(full)))]

----------------------------------------------------------------------------
(* Rows *)

\* sync_excel.py 136-164: the row an import leaves for a new book; for the
\* final-review flag, which compile_book compares with no_notes_needed only
\* (compile_book.py 37), yes stands for every other value of the cell
ImportedRows ==
    [notes_on_outline_before : {NoText, <<>>, <<"x">>},
     outline : {NoText},
     outline_status : {"pending"},
     status_outline_notes : {"yes", "no", "no_notes_needed"},
     chapter_notes_status : {"no_notes_needed"},
     final_review_notes_status : {"yes", "no_notes_needed"},
     final_review_notes : {NoText, <<"x">>},
     book_output_status : {"not_started"},
     total_chapters : {0},
     output_file_url : {None}]

DefaultRow ==
    [notes_on_outline_before |-> <<"x">>,
     outline |-> NoText,
     outline_status |-> "pending",
     status_outline_notes |-> "no_notes_needed",
     chapter_notes_status |-> "no_notes_needed",
     final_review_notes_status |-> "no_notes_needed",
     final_review_notes |-> NoText,
     book_output_status |-> "not_started",
     total_chapters |-> 0,
     output_file_url |-> None]

NoChapter == [present |-> FALSE, chapter_notes_status |-> None, content |-> NoText]

\* no record with this id in table "books"
NoEntry == [present |-> FALSE, title |-> <<>>, sheet_row_id |-> 0]

\* the title and row id columns of a book that an import created
ImportedEntry == [present |-> TRUE, title |-> <<"A">>, sheet_row_id |-> 3]

\* no import is running
NoSync == [adapter |-> "none", pc |-> "off", rows |-> <<>>, next |-> 1, book_ids |-> <<>>]

\* nothing stored and nothing generated for a (book id, chapter number)
NoKeyed == [chapters |-> 0, chapter_summaries |-> 0, runs |-> 0,
            content |-> NoText, summary |-> NoText]

\* state.py 11-36: a BookState before load_initial_state has filled it
EmptyState ==
    [notes_on_outline_before |-> NoText,
     outline |-> NoText,
     status_outline_notes |-> None,
     current_chapter_number |-> 1,
     total_chapters |-> 0,
     chapter_notes_status |-> None,
     chapter_summaries |-> <<>>,
     final_review_notes_status |-> None,
     final_review_notes |-> NoText,
     book_output_status |-> None,
     event |-> None,
     route_reason |-> None]

\* one read of a gating value: by load_initial_state ("load"), the outline
\* router ("outline"), the chapter stage ("chapter") or compile_book ("final")
Read(gate, n, flag, notes, lookup_ok) ==
    [gate |-> gate, n |-> n, flag |-> flag, notes |-> notes, lookup_ok |-> lookup_ok]

\* deps.py 21-28: int() of CHAPTER_TARGET_COUNT; only a value that is not an
\* integer falls back to 5, so zero and negative numbers are passed on as they are.
ChapterTargets == (-1)..MaxChapters

\* notifications.py 21-40: nothing was sent and no insert was tried
NoDelivery == [email |-> "none", teams |-> "none", insert |-> "none"]

\* no book of the pass has been through process_book
NoRun == [visited |-> <<>>, event |-> None]

NoTrail == [b \in BookIds |-> NoRun]

\* the chapter an earlier invocation for the book stopped at
StoppedAt == 2

\* what that invocation stored for the chapters below StoppedAt
StoredChapter == SplitChapter(CHOOSE t \in ChapterSamples : TRUE)

\* outline.py 62-68: the books row after that invocation's outline stage
StoppedRow ==
    [DefaultRow EXCEPT !.outline = Strip(CHOOSE t \in OutlineSamples : TRUE),
                       !.outline_status = "generated",
                       !.total_chapters = StoppedAt]

\* chapters.py 138-146: the chapters table after it: a generated chapter 1 and
\* the row of chapter 2, on which an editor has set the flag yes
StoppedChapters ==
    [n \in ChapterNumbers |->
        IF n < StoppedAt
        THEN [present |-> TRUE, chapter_notes_status |-> None, content |-> StoredChapter.content]
        ELSE IF n = StoppedAt
        THEN [present |-> TRUE, chapter_notes_status |-> "yes", content |-> NoText]
        ELSE NoChapter]

\* chapters.py 149-155: the chapter_summaries table after it
StoppedSummaries ==
    [n \in ChapterNumbers |-> IF n < StoppedAt THEN StoredChapter.summary ELSE NoText]

StoppedKeyed ==
    [n \in ChapterNumbers |->
        IF n < StoppedAt
        THEN [chapters |-> 1, chapter_summaries |-> 1, runs |-> 1,
              content |-> StoredChapter.content, summary |-> StoredChapter.summary]
        ELSE IF n = StoppedAt
        THEN [NoKeyed EXCEPT !.chapters = 1]
        ELSE NoKeyed]

\* One call of process_book (worker.py 69-105) for the book "b1", with no
\* worker loop around it: for a book as an import leaves it, or for a book that
\* an earlier invocation took to chapter StoppedAt, where it waited for notes.
Init ==
    /\ book_id = "b1"
    /\ \/ /\ \E r \in ImportedRows :
                books = [x \in BookIds |-> IF x = book_id THEN r ELSE DefaultRow]
          /\ chapters = [x \in BookIds |-> [n \in ChapterNumbers |-> NoChapter]]
          /\ chapter_summaries = [x \in BookIds |-> [n \in ChapterNumbers |-> NoText]]
          /\ keyed = [x \in BookIds |-> [n \in ChapterNumbers |-> NoKeyed]]
          /\ chapter_target \in ChapterTargets
       \/ /\ books = [x \in BookIds |-> IF x = book_id THEN StoppedRow ELSE DefaultRow]
          /\ chapters = [x \in BookIds |->
                IF x = book_id THEN StoppedChapters ELSE [n \in ChapterNumbers |-> NoChapter]]
          /\ chapter_summaries = [x \in BookIds |->
                IF x = book_id THEN StoppedSummaries ELSE [n \in ChapterNumbers |-> NoText]]
          /\ keyed = [x \in BookIds |->
                IF x = book_id THEN StoppedKeyed ELSE [n \in ChapterNumbers |-> NoKeyed]]
          /\ chapter_target = StoppedAt
    /\ notifications = <<>>
    /\ storage = {}
    /\ state = EmptyState
    /\ pc = "start"
    /\ llm_calls = 0
    /\ visited = <<>>
    /\ reads = <<>>
    /\ edits = 0
    /\ mode = "none" /\ limit = 0 /\ explicit_ids = <<>> /\ wpc = "off"
    /\ pending = <<>> /\ batch = <<>> /\ processed = <<>> /\ polls = 0
    /\ trail = NoTrail
    /\ delivery = NoDelivery /\ pdf = "none"
    /\ catalog = [x \in BookIds |-> ImportedEntry] /\ sync = NoSync

----------------------------------------------------------------------------
(* graph.py: load_initial_state *)

\* mutant: the run resumes after the chapters that are stored
FirstChapterNumber_AfterStored == IF chapters[book_id][1].content # NoText THEN 2 ELSE 1

\* state.py 11-36 with graph.py 38-50: load_initial_state passes no
\* current_chapter_number, so the BookState starts at its default
FirstChapterNumber == 1

\* graph.py 15-50.  notes_on_outline_before is a required str of BookState, so
\* a NULL column fails validation; total_chapters is not among the selected
\* columns, so book.get("total_chapters") or 0 is 0.
LoadInitialState ==
    /\ pc = "start"
    /\ LET book == books[book_id] IN
       IF book.notes_on_outline_before = NoText
       THEN /\ pc' = "raised"
            /\ UNCHANGED <<state, reads>>
       ELSE /\ reads' = Append(reads,
                   Read("load", 0, book.status_outline_notes, NoText, TRUE))
            /\ state' = [EmptyState EXCEPT
                  !.notes_on_outline_before = book.notes_on_outline_before,
                  !.outline = book.outline,
                  !.status_outline_notes = book.status_outline_notes,
                  !.chapter_notes_status = book.chapter_notes_status,
                  !.final_review_notes_status = book.final_review_notes_status,
                  !.final_review_notes = book.final_review_notes,
                  !.book_output_status = book.book_output_status,
                  !.current_chapter_number = FirstChapterNumber,
                  !.total_chapters = 0]
            /\ pc' = "generate_outline"
    /\ UNCHANGED <<dbvars, chapter_target, book_id, llm_calls, visited, edits>>
    /\ UNCHANGED auxvars

----------------------------------------------------------------------------
(* nodes/outline.py: generate_outline *)

\* deps.py 21-28
get_target_chapter_count == chapter_target

\* mutant: only a NULL column counts as missing notes
NotesMissing_NullOnly(notes_on_outline_before) == notes_on_outline_before = NoText

\* mutant: a book that has an outline is not given another one
NotesMissing_OrOutlineStored(notes_on_outline_before) ==
    ~Truthy(notes_on_outline_before) \/ state.outline # NoText

\* outline.py 39
NotesMissing(notes_on_outline_before) == ~Truthy(notes_on_outline_before)

\* outline.py 33-75, the run that returns
generate_outline ==
    /\ pc = "generate_outline"
    /\ visited' = Append(visited, <<"generate_outline", 0>>)
    /\ pc' = "router_after_outline"
    /\ IF NotesMissing(state.notes_on_outline_before)
       THEN /\ state' = [state EXCEPT !.event = "missing_notes_on_outline_before"]
            /\ UNCHANGED <<books, llm_calls>>
       ELSE \E text \in OutlineSamples :
            LET outline_text == Strip(text)
                chapter_count == get_target_chapter_count
            IN  /\ llm_calls' = llm_calls + 1
                /\ books' = [books EXCEPT ![book_id] =
                       [@ EXCEPT !.outline = outline_text,
                                 !.outline_status = "generated",
                                 !.total_chapters = chapter_count]]
                /\ state' = [state EXCEPT !.outline = outline_text,
                                          !.total_chapters = chapter_count,
                                          !.event = "outline_generated"]
    /\ UNCHANGED <<chapters, chapter_summaries, notifications, storage,
                   chapter_target, book_id, reads, edits>>
    /\ UNCHANGED auxvars

\* mutant: the stage catches the error and returns without an event
AfterOutlineFailure_Swallowed == "router_after_outline"

\* outline.py 49-68 has no try block and graph.py registers the stage as it
\* is (132), so the exception leaves workflow.invoke (worker.py 79, 95)
AfterOutlineFailure == "raised"

\* outline.py 44-68: the model call or the books update raises
generate_outline_raises ==
    /\ pc = "generate_outline"
    /\ ~NotesMissing(state.notes_on_outline_before)
    /\ visited' = Append(visited, <<"generate_outline", 0>>)
    /\ llm_calls' = llm_calls + 1
    /\ pc' = AfterOutlineFailure
    /\ UNCHANGED <<dbvars, chapter_target, book_id, state, reads, edits>>
    /\ UNCHANGED auxvars

----------------------------------------------------------------------------
(* graph.py: _router_after_outline *)

\* mutant: the router treats yes as an approval to go on
OutlineGate_YesProceeds(status) ==
    IF status \in {"yes", "no_notes_needed"} THEN "proceed" ELSE "pause"

\* mutant: the outline gate lets a missing status through, as the chapter gate does
OutlineGate_NoneProceeds(status) ==
    IF status = "yes" THEN "wait"
    ELSE IF status \in {None, "no_notes_needed"} THEN "proceed"
    ELSE "pause"

\* graph.py 77-88: what the outline router does with the status it has read
OutlineGate(status) ==
    IF status = "yes" THEN "wait"
    ELSE IF status = "no_notes_needed" THEN "proceed"
    ELSE "pause"

\* mutant: the two notification events of the outline router are swapped
OutlineEvent_Swapped(gate, event) ==
    CASE gate = "wait" -> "outline_paused_missing_status"
      [] gate = "proceed" -> event
      [] OTHER -> "outline_waiting_for_notes"

\* graph.py 79, 87: the event the router leaves in state.control
OutlineEvent(gate, event) ==
    CASE gate = "wait" -> "outline_waiting_for_notes"
      [] gate = "proceed" -> event
      [] OTHER -> "outline_paused_missing_status"

\* mutant: the router trusts the copy load_initial_state put in the state
OutlineStatusRead_Loaded == state.status_outline_notes

\* graph.py 64-74: the status the router works with
OutlineStatusRead == books[book_id].status_outline_notes

\* mutant: without an outline the router goes on to the chapters
RouteWithoutOutline_Chapters(event) == "generate_next_chapter"

\* graph.py 57-62: the two early returns of the router, taken when the outline
\* stage did not emit outline_generated
RouteWithoutOutline(event) == "notify"

\* graph.py 53-88, the run that returns
router_after_outline ==
    /\ pc = "router_after_outline"
    /\ IF state.event = "missing_notes_on_outline_before"
       THEN /\ state' = [state EXCEPT !.route_reason = "outline_missing_notes_before"]
            /\ pc' = RouteWithoutOutline(state.event)
            /\ UNCHANGED reads
       ELSE IF state.event # "outline_generated"
       THEN /\ pc' = RouteWithoutOutline(state.event)
            /\ UNCHANGED <<state, reads>>
       ELSE LET status == OutlineStatusRead
                gate == OutlineGate(status)
            IN  /\ reads' = Append(reads, Read("outline", 0, status, NoText, TRUE))
                /\ state' = [state EXCEPT
                       !.status_outline_notes = status,
                       !.event = OutlineEvent(gate, @)]
                /\ pc' = IF gate = "proceed" THEN "generate_next_chapter" ELSE "notify"
    /\ UNCHANGED <<dbvars, chapter_target, book_id, llm_calls, visited, edits>>
    /\ UNCHANGED auxvars

\* graph.py 64-73: the re-read of the books row raises
router_after_outline_raises ==
    /\ pc = "router_after_outline"
    /\ state.event = "outline_generated"
    /\ pc' = "raised"
    /\ UNCHANGED <<dbvars, chapter_target, book_id, state, llm_calls, visited, reads, edits>>
    /\ UNCHANGED auxvars

----------------------------------------------------------------------------
(* nodes/chapters.py: generate_next_chapter *)

\* mutant: the second test is a truthiness test, so "" passes like None
ChapterGate_EmptyProceeds(chapter_notes_status) ==
    IF chapter_notes_status = "yes" THEN "wait"
    ELSE IF chapter_notes_status \notin {None, "", "no_notes_needed"} THEN "pause"
    ELSE "proceed"

\* chapters.py 104-111: what the chapter stage does with the status it looked up
ChapterGate(chapter_notes_status) ==
    IF chapter_notes_status = "yes" THEN "wait"
    ELSE IF chapter_notes_status \notin {None, "no_notes_needed"} THEN "pause"
    ELSE "proceed"

\* mutant: the index is advanced twice
NextChapterNumber_Twice(n) == n + 2

\* chapters.py 161
NextChapterNumber(n) == n + 1

\* chapters.py 65-78: the stored summaries of the chapters below n, ascending
RECURSIVE StoredSummaries(_, _, _)
StoredSummaries(b, i, n) ==
    IF i >= n \/ i > MaxChapters THEN <<>>
    ELSE (IF chapter_summaries[b][i] # NoText
          THEN <<[chapter_number |-> i, summary |-> chapter_summaries[b][i]]>>
          ELSE <<>>) \o StoredSummaries(b, i + 1, n)

\* chapters.py 62-80: the summaries the stage works with, load_ok telling
\* whether the best-effort read returned
Backfilled(summaries, n, load_ok) ==
    IF summaries = <<>> /\ n > 1 /\ load_ok /\ StoredSummaries(book_id, 1, n) # <<>>
    THEN StoredSummaries(book_id, 1, n)
    ELSE summaries

\* mutant: without a flag on the chapter's row the stage falls back on the
\* book-level flag that load_initial_state put in the state
LookedUpStatus_BookLevel(n, lookup_ok) ==
    IF lookup_ok /\ chapters[book_id][n].present
          /\ chapters[book_id][n].chapter_notes_status # None
    THEN chapters[book_id][n].chapter_notes_status
    ELSE state.chapter_notes_status

\* chapters.py 84-101: the status the lookup yields; a missing row, a NULL
\* column and a lookup that raised all give None
LookedUpStatus(n, lookup_ok) ==
    IF lookup_ok /\ chapters[book_id][n].present
    THEN chapters[book_id][n].chapter_notes_status
    ELSE None

\* chain.invoke (chapters.py 113-121): the reply to the request for chapter n
Replies(n) ==
    IF chapters[book_id][n].content = NoText
    THEN ChapterSamples
    ELSE ChapterSamples \cup RewriteSamples

\* mutant: the write is an insert
Upserted_Appends(count) == count + 1

\* chapters.py 137-155: .upsert() on a table whose rows are unique in
\* (book_id, chapter_number): the number of rows with the key afterwards
Upserted(count) == IF count = 0 THEN 1 ELSE count

\* mutant: a book without chapters is not taken to be complete
AllChaptersDone_PositiveTotal(n, total_chapters) == n > total_chapters /\ total_chapters > 0

\* chapters.py 55
AllChaptersDone(n, total_chapters) == n > total_chapters

\* chapters.py 47-164, the run that returns
generate_next_chapter ==
    /\ pc = "generate_next_chapter"
    /\ pc' = "router_after_chapter"
    /\ LET n == state.current_chapter_number IN
       /\ visited' = Append(visited, <<"generate_next_chapter", n>>)
       /\ IF AllChaptersDone(n, state.total_chapters)
          THEN /\ state' = [state EXCEPT !.event = "all_chapters_done"]
               /\ UNCHANGED <<chapters, chapter_summaries, llm_calls, reads, keyed>>
          ELSE \E load_ok \in BOOLEAN, lookup_ok \in BOOLEAN :
               LET summaries == Backfilled(state.chapter_summaries, n, load_ok)
                   status == LookedUpStatus(n, lookup_ok)
                   gate == ChapterGate(status)
               IN  /\ reads' = Append(reads, Read("chapter", n, status, NoText, lookup_ok))
                   /\ IF gate = "wait"
                      THEN /\ state' = [state EXCEPT !.chapter_summaries = summaries,
                                                     !.event = "waiting_for_chapter_notes"]
                           /\ UNCHANGED <<chapters, chapter_summaries, llm_calls, keyed>>
                      ELSE IF gate = "pause"
                      THEN /\ state' = [state EXCEPT !.chapter_summaries = summaries,
                                                     !.event = "paused_for_chapter_notes_status"]
                           /\ UNCHANGED <<chapters, chapter_summaries, llm_calls, keyed>>
                      ELSE \E text \in Replies(n) :
                           LET parts == SplitChapter(text) IN
                           /\ llm_calls' = llm_calls + 1
                           /\ keyed' = [keyed EXCEPT ![book_id][n] =
                                  [chapters |-> Upserted(@.chapters),
                                   chapter_summaries |-> Upserted(@.chapter_summaries),
                                   runs |-> @.runs + 1,
                                   content |-> parts.content,
                                   summary |-> parts.summary]]
                           /\ chapters' = [chapters EXCEPT ![book_id][n] =
                                  [@ EXCEPT !.present = TRUE, !.content = parts.content]]
                           /\ chapter_summaries' =
                                  [chapter_summaries EXCEPT ![book_id][n] = parts.summary]
                           /\ state' = [state EXCEPT
                                  !.chapter_summaries = Append(summaries,
                                      [chapter_number |-> n, summary |-> parts.summary]),
                                  !.current_chapter_number = NextChapterNumber(n),
                                  !.event = "chapter_generated"]
    /\ UNCHANGED <<books, notifications, storage, chapter_target, book_id, edits>>
    /\ UNCHANGED <<wvars, delivery, ivars, pdf>>

\* chapters.py 113-155: the model call or one of the two upserts raises
generate_next_chapter_raises ==
    /\ pc = "generate_next_chapter"
    /\ LET n == state.current_chapter_number IN
       /\ n <= state.total_chapters
       /\ visited' = Append(visited, <<"generate_next_chapter", n>>)
       /\ \E lookup_ok \in BOOLEAN, at \in {"llm", "chapters", "chapter_summaries"} :
          LET status == LookedUpStatus(n, lookup_ok) IN
          /\ ChapterGate(status) = "proceed"
          /\ reads' = Append(reads, Read("chapter", n, status, NoText, lookup_ok))
          /\ IF at = "chapter_summaries"
             THEN \E text \in Replies(n) :
                  /\ chapters' = [chapters EXCEPT ![book_id][n] =
                         [@ EXCEPT !.present = TRUE, !.content = SplitChapter(text).content]]
                  /\ keyed' = [keyed EXCEPT ![book_id][n].chapters = Upserted(@)]
             ELSE UNCHANGED <<chapters, keyed>>
    /\ llm_calls' = llm_calls + 1
    /\ pc' = "raised"
    /\ UNCHANGED <<books, chapter_summaries, notifications, storage, chapter_target,
                   book_id, state, edits>>
    /\ UNCHANGED <<wvars, delivery, ivars, pdf>>

----------------------------------------------------------------------------
(* graph.py: _router_after_chapter *)

\* mutant: the loop test is strict, so the last chapter is skipped
RouteAfterChapter_Strict(event, current_chapter_number, total_chapters) ==
    IF event \in {"waiting_for_chapter_notes", "paused_for_chapter_notes_status"}
    THEN "notify"
    ELSE IF event = "chapter_generated"
    THEN (IF current_chapter_number < total_chapters
          THEN "generate_next_chapter"
          ELSE "compile_book")
    ELSE IF event = "all_chapters_done" THEN "compile_book"
    ELSE "notify"

\* graph.py 95-112
RouteAfterChapter(event, current_chapter_number, total_chapters) ==
    IF event \in {"waiting_for_chapter_notes", "paused_for_chapter_notes_status"}
    THEN "notify"
    ELSE IF event = "chapter_generated"
    THEN (IF current_chapter_number <= total_chapters
          THEN "generate_next_chapter"
          ELSE "compile_book")
    ELSE IF event = "all_chapters_done" THEN "compile_book"
    ELSE "notify"

\* graph.py 91-112
router_after_chapter ==
    /\ pc = "router_after_chapter"
    /\ pc' = RouteAfterChapter(state.event, state.current_chapter_number,
                               state.total_chapters)
    /\ UNCHANGED <<dbvars, chapter_target, book_id, state, llm_calls, visited, reads, edits>>
    /\ UNCHANGED auxvars

----------------------------------------------------------------------------
(* nodes/compile_book.py: compile_book *)

\* mutant: the notes are tested without strip(), so blank notes count as notes
FinalReviewReady_NoStrip(fr_status, final_review_notes) ==
    fr_status = "no_notes_needed" \/ Truthy(OrEmpty(final_review_notes))

\* compile_book.py 33-38: the test on the row just read
FinalReviewReady(fr_status, final_review_notes) ==
    LET fr_notes == OrEmpty(final_review_notes) IN
    fr_status = "no_notes_needed" \/ (Truthy(fr_notes) /\ Truthy(Strip(fr_notes)))

File(b, ext) == <<b, ext>>

\* mutant: the test uses the final-review fields load_initial_state put in the state
FinalReviewRow_Loaded ==
    [books[book_id] EXCEPT !.final_review_notes_status = state.final_review_notes_status,
                           !.final_review_notes = state.final_review_notes]

\* compile_book.py 25-31: the books row read when the stage runs
FinalReviewRow == books[book_id]

\* compile_book.py 114-126: what the try block can come to: the PDF is built
\* and uploaded, pdf_doc.build raises, or storage.upload raises
PdfResults == {"uploaded", "render_failed", "upload_failed"}

\* compile_book.py 114-126: what the try block leaves: the PDF in the bucket,
\* or pdf_url = None after the except branch, whichever call raised
PdfOutcome(result) == IF result = "uploaded" THEN "uploaded" ELSE "skipped"

\* compile_book.py 93-126: the ways a compile can end without a PDF: an
\* exception while the story is put together (SimpleDocTemplate, Paragraph:
\* lines 93-112, before the try block), or the except branch of the try block
PdfFailures == {"assemble_failed", "skipped"}

\* the files in the bucket after the uploads of a compile that got to the PDF
Uploaded(result) ==
    {File(book_id, "txt"), File(book_id, "docx")}
       \cup (IF result = "uploaded" THEN {File(book_id, "pdf")} ELSE {})

\* compile_book.py 17-139, the run that returns
compile_book ==
    /\ pc = "compile_book"
    /\ pc' = "router_after_compile"
    /\ visited' = Append(visited, <<"compile_book", 0>>)
    /\ LET book_row == FinalReviewRow
           fr_status == book_row.final_review_notes_status
       IN  /\ reads' = Append(reads,
                   Read("final", 0, fr_status, book_row.final_review_notes, TRUE))
           /\ IF ~FinalReviewReady(fr_status, book_row.final_review_notes)
              THEN /\ state' = [state EXCEPT !.event = "final_review_not_ready"]
                   /\ UNCHANGED <<books, storage, pdf>>
              ELSE \E result \in PdfResults :
                   /\ pdf' = PdfOutcome(result)
                   /\ storage' = storage \cup Uploaded(result)
                   /\ books' = [books EXCEPT ![book_id] =
                          [@ EXCEPT !.book_output_status = "ready",
                                    !.output_file_url = "docx_url"]]
                   /\ state' = [state EXCEPT !.book_output_status = "ready",
                                             !.event = "book_compiled"]
    /\ UNCHANGED <<chapters, chapter_summaries, notifications, chapter_target,
                   book_id, llm_calls, edits>>
    /\ UNCHANGED <<wvars, delivery, keyed, ivars>>

\* compile_book.py 25-134: a call outside the try block raises: the read of
\* the books row, the read of the chapters, an upload, the assembly of the PDF
\* story, or the final update
compile_book_raises ==
    /\ pc = "compile_book"
    /\ pc' = "raised"
    /\ visited' = Append(visited, <<"compile_book", 0>>)
    /\ \E at \in {"books", "chapters", "txt", "docx", "pdf_story", "update"},
          result \in PdfResults \cup {"none", "assemble_failed"} :
       LET book_row == FinalReviewRow IN
       /\ at \in {"books", "chapters", "txt", "docx"} <=> result = "none"
       /\ at = "pdf_story" <=> result = "assemble_failed"
       /\ at # "books" =>
             FinalReviewReady(book_row.final_review_notes_status, book_row.final_review_notes)
       /\ reads' = IF at = "books" THEN reads
                 ELSE Append(reads, Read("final", 0, book_row.final_review_notes_status,
                                         book_row.final_review_notes, TRUE))
       /\ storage' = CASE at = "docx" -> storage \cup {File(book_id, "txt")}
                       [] at \in {"pdf_story", "update"} -> storage \cup Uploaded(result)
                       [] OTHER -> storage
       /\ pdf' = IF at = "update" THEN PdfOutcome(result) ELSE result
    /\ UNCHANGED <<books, chapters, chapter_summaries, notifications, chapter_target,
                   book_id, state, llm_calls, edits>>
    /\ UNCHANGED <<wvars, delivery, keyed, ivars>>

\* mutant: a compiled book ends the run without notification
RouteAfterCompile_NoNotify(event) ==
    IF event = "final_review_not_ready" THEN "notify" ELSE "END"

\* graph.py 115-123
RouteAfterCompile(event) ==
    IF event = "book_compiled" THEN "notify"
    ELSE IF event = "final_review_not_ready" THEN "notify"
    ELSE "END"

router_after_compile ==
    /\ pc = "router_after_compile"
    /\ pc' = RouteAfterCompile(state.event)
    /\ UNCHANGED <<dbvars, chapter_target, book_id, state, llm_calls, visited, reads, edits>>
    /\ UNCHANGED auxvars

----------------------------------------------------------------------------
(* nodes/notifications.py: notify *)

\* what one delivery attempt can come to: the channel is not configured, the
\* message went out, or the attempt raised inside the sender
ChannelResults == {"skipped", "sent", "failed"}

\* mutant: a failed SMTP session is not caught
send_email_Propagates(result) == IF result = "failed" THEN "raised" ELSE "returned"

\* email.py 26-28 (not configured: return) and 42-55 (every exception of the
\* SMTP session is caught and logged)
send_email(result) == "returned"

\* teams.py 14-21: no webhook: return; the post is wrapped in try/except pass
send_teams_message(result) == "returned"

\* notifications.py 32-40: the audit record
AuditRecord(event) ==
    [book_id |-> book_id, type |-> event, channel |-> "email+teams", status |-> "sent"]

\* mutant: an edge leads from notify back to the entry point
AfterNotify_Outline == "generate_outline"

\* graph.py 126-167: build_graph gives notify no outgoing edge, so the graph
\* run ends when notify returns
AfterNotify == "END"

\* notifications.py 11-42, the run whose insert does not raise
notify ==
    /\ pc = "notify"
    /\ visited' = Append(visited, <<"notify", 0>>)
    /\ IF state.event \in {None, ""}
       THEN /\ pc' = AfterNotify
            /\ UNCHANGED <<notifications, delivery>>
       ELSE \E em \in ChannelResults, tm \in ChannelResults :
               IF send_email(em) = "raised"
               THEN /\ pc' = "raised"
                    /\ delivery' = [email |-> em, teams |-> "none", insert |-> "none"]
                    /\ UNCHANGED notifications
               ELSE IF send_teams_message(tm) = "raised"
               THEN /\ pc' = "raised"
                    /\ delivery' = [email |-> em, teams |-> tm, insert |-> "none"]
                    /\ UNCHANGED notifications
               ELSE /\ pc' = AfterNotify
                    /\ delivery' = [email |-> em, teams |-> tm, insert |-> "ok"]
                    /\ notifications' = Append(notifications, AuditRecord(state.event))
    /\ UNCHANGED <<books, chapters, chapter_summaries, storage, chapter_target,
                   book_id, state, llm_calls, reads, edits>>
    /\ UNCHANGED <<wvars, keyed, ivars, pdf>>

\* notifications.py 32-40: both senders returned and the insert of the audit
\* record raises
notify_raises ==
    /\ pc = "notify"
    /\ state.event \notin {None, ""}
    /\ pc' = "raised"
    /\ visited' = Append(visited, <<"notify", 0>>)
    /\ \E em \in ChannelResults, tm \in ChannelResults :
          /\ send_email(em) = "returned" /\ send_teams_message(tm) = "returned"
          /\ delivery' = [email |-> "returned", teams |-> "returned", insert |-> "failed"]
    /\ UNCHANGED <<dbvars, chapter_target, book_id, state, llm_calls, reads, edits>>
    /\ UNCHANGED <<wvars, keyed, ivars, pdf>>

----------------------------------------------------------------------------
(* worker.py: process_book *)

\* worker.py 79-93: workflow.invoke returned
process_book_returns ==
    /\ pc = "END"
    /\ pc' = "returned"
    /\ UNCHANGED <<dbvars, chapter_target, book_id, state, llm_calls, visited, reads, edits>>
    /\ delivery' = NoDelivery /\ pdf' = "none"
    /\ trail' = [trail EXCEPT ![book_id] = [visited |-> visited, event |-> state.event]]
    /\ UNCHANGED <<mode, limit, explicit_ids, wpc, pending, batch, processed, polls>>
    /\ UNCHANGED <<keyed, ivars>>

\* mutant: the except branch resets the book for another try
ErrorUpdate_Reset(row) == [row EXCEPT !.book_output_status = "not_started"]

\* worker.py 100-102: update({"book_output_status": "error"})
ErrorUpdate(row) == [row EXCEPT !.book_output_status = "error"]

\* worker.py 95-105: the except branch; its own update may fail silently
process_book_except ==
    /\ pc = "raised"
    /\ pc' = "returned"
    /\ \E update_ok \in BOOLEAN :
          books' = IF update_ok
                   THEN [books EXCEPT ![book_id] = ErrorUpdate(@)]
                   ELSE books
    /\ UNCHANGED <<chapters, chapter_summaries, notifications, storage, chapter_target,
                   book_id, state, llm_calls, visited, reads, edits>>
    /\ delivery' = NoDelivery /\ pdf' = "none"
    /\ trail' = [trail EXCEPT ![book_id] = [visited |-> visited, event |-> state.event]]
    /\ UNCHANGED <<mode, limit, explicit_ids, wpc, pending, batch, processed, polls>>
    /\ UNCHANGED <<keyed, ivars>>

----------------------------------------------------------------------------
(* The editor: changes of gating fields made in the datastore by a person *)

\* An edit is modelled right before a read of the edited field (the load, the
\* outline router, the chapter stage for its own chapter, compile_book): an
\* edit made earlier leads to the same read, and a later one changes nothing
\* the invocation does.
OutlineUnread == pc \in {"start", "router_after_outline"}

FinalReviewUnread == pc \in {"start", "compile_book"}

ChapterUnread(n) ==
    /\ pc = "generate_next_chapter"
    /\ n = state.current_chapter_number
    /\ n <= chapter_target

EditOutlineStatus ==
    /\ OutlineUnread /\ edits < MaxEdits
    /\ \E v \in StatusValues :
          /\ v # books[book_id].status_outline_notes
          /\ books' = [books EXCEPT ![book_id] = [@ EXCEPT !.status_outline_notes = v]]
    /\ edits' = edits + 1
    /\ UNCHANGED <<chapters, chapter_summaries, notifications, storage, chapter_target,
                   book_id, state, pc, llm_calls, visited, reads>>
    /\ UNCHANGED auxvars

EditFinalReviewStatus ==
    /\ FinalReviewUnread /\ edits < MaxEdits
    /\ \E v \in StatusValues :
          /\ v # books[book_id].final_review_notes_status
          /\ books' = [books EXCEPT ![book_id] = [@ EXCEPT !.final_review_notes_status = v]]
    /\ edits' = edits + 1
    /\ UNCHANGED <<chapters, chapter_summaries, notifications, storage, chapter_target,
                   book_id, state, pc, llm_calls, visited, reads>>
    /\ UNCHANGED auxvars

EditFinalReviewNotes ==
    /\ FinalReviewUnread /\ edits < MaxEdits
    /\ \E t \in TextSamples \cup {NoText} :
          /\ t # books[book_id].final_review_notes
          /\ books' = [books EXCEPT ![book_id] = [@ EXCEPT !.final_review_notes = t]]
    /\ edits' = edits + 1
    /\ UNCHANGED <<chapters, chapter_summaries, notifications, storage, chapter_target,
                   book_id, state, pc, llm_calls, visited, reads>>
    /\ UNCHANGED auxvars

EditChapterStatus ==
    /\ edits < MaxEdits
    /\ \E n \in ChapterNumbers, v \in StatusValues :
          /\ ChapterUnread(n)
          /\ ~(chapters[book_id][n].present /\ chapters[book_id][n].chapter_notes_status = v)
          /\ chapters' = [chapters EXCEPT ![book_id][n] =
                 [@ EXCEPT !.present = TRUE, !.chapter_notes_status = v]]
          /\ keyed' = [keyed EXCEPT ![book_id][n].chapters = IF @ = 0 THEN 1 ELSE @]
    /\ edits' = edits + 1
    /\ UNCHANGED <<books, chapter_summaries, notifications, storage, chapter_target,
                   book_id, state, pc, llm_calls, visited, reads>>
    /\ UNCHANGED <<wvars, delivery, ivars, pdf>>

----------------------------------------------------------------------------

Next ==
    \/ LoadInitialState
    \/ generate_outline
    \/ generate_outline_raises
    \/ router_after_outline
    \/ router_after_outline_raises
    \/ generate_next_chapter
    \/ generate_next_chapter_raises
    \/ router_after_chapter
    \/ compile_book
    \/ compile_book_raises
    \/ router_after_compile
    \/ notify
    \/ notify_raises
    \/ process_book_returns
    \/ process_book_except
    \/ EditOutlineStatus
    \/ EditFinalReviewStatus
    \/ EditFinalReviewNotes
    \/ EditChapterStatus

Spec == Init /\ [][Next]_vars

----------------------------------------------------------------------------
(* worker.py: find_pending_books, run_worker_once, run_worker_loop *)

Range(seq) == {seq[i] : i \in DOMAIN seq}

Min(a, b) == IF a <= b THEN a ELSE b

\* the lists that hold every element of S once
Orderings(S) == {q \in [1..Cardinality(S) -> S] : \A i, j \in DOMAIN q : q[i] = q[j] => i = j}

\* .limit(L).execute(): at most L of the matching rows, in an order and a
\* choice that are the datastore's
Limited(S, L) == {q \in [1..Min(L, Cardinality(S)) -> S] :
                     \A i, j \in DOMAIN q : q[i] = q[j] => i = j}

\* mutant: the first query leaves out books marked error
PendingOutline_SkipsErrors ==
    {b \in BookIds : /\ books[b].outline_status = "pending"
                     /\ books[b].notes_on_outline_before # NoText
                     /\ books[b].book_output_status # "error"}

\* mutant: the first query does not look at the outline status
PendingOutline_AnyOutlineStatus ==
    {b \in BookIds : books[b].notes_on_outline_before # NoText}

\* worker.py 29-36
PendingOutline ==
    {b \in BookIds : /\ books[b].outline_status = "pending"
                     /\ books[b].notes_on_outline_before # NoText}

\* worker.py 41-48
ApprovedOutline ==
    {b \in BookIds : /\ books[b].outline_status = "approved"
                     /\ books[b].book_output_status = "not_started"}

\* worker.py 54-61
InProgress ==
    {b \in BookIds : /\ books[b].outline_status = "approved"
                     /\ books[b].book_output_status \in {"not_started", "in_progress"}}

\* mutant: the concatenated list is returned as it is
Dedup_Off(ids) == {ids}

\* worker.py 66: list(set(book_ids)), the order of the result being the set's
Dedup(ids) == Orderings(Range(ids))

\* worker.py 18-66: the lists the function can return
find_pending_books(L) ==
    UNION {Dedup(q1 \o q2 \o q3) : q1 \in Limited(PendingOutline, L),
                                   q2 \in Limited(ApprovedOutline, L),
                                   q3 \in Limited(InProgress, L)}

\* worker.py 116-125: the list of the pass; with nothing to do the pass is over
run_worker_once ==
    /\ wpc = "idle" /\ polls < MaxPolls
    /\ \E p \in (IF explicit_ids # <<>> THEN {explicit_ids} ELSE find_pending_books(limit)) :
          IF p = <<>>
          THEN /\ polls' = polls + 1
               /\ wpc' = IF mode = "loop" THEN "idle" ELSE "exit"
               /\ UNCHANGED <<pending, batch>>
          ELSE /\ wpc' = "pass"
               /\ pending' = p
               /\ batch' = p
               /\ UNCHANGED polls
    /\ processed' = <<>>
    /\ UNCHANGED <<dbvars, chapter_target, book_id, state, pc, llm_calls, visited,
                   reads, edits, mode, limit, explicit_ids, delivery, keyed, ivars, pdf,
                   trail>>

\* worker.py 128-129 and 74-77: the loop hands the next book to process_book,
\* which builds a graph and a fresh BookState
process_book_starts ==
    /\ wpc = "pass" /\ pc = "returned" /\ pending # <<>>
    /\ book_id' = Head(pending)
    /\ pending' = Tail(pending)
    /\ processed' = Append(processed, Head(pending))
    /\ pc' = "start"
    /\ state' = EmptyState
    /\ llm_calls' = 0 /\ visited' = <<>> /\ reads' = <<>>
    /\ UNCHANGED <<dbvars, chapter_target, edits, mode, limit, explicit_ids, wpc, batch,
                   polls, delivery, keyed, ivars, pdf, trail>>

\* worker.py 128-131, 142-144, 180-186: the loop over pending is through;
\* run_worker_loop goes on to its next pass, --once and --book-id end the
\* process.  Nothing of the pass outlives it but the datastore.
run_worker_once_returns ==
    /\ wpc = "pass" /\ pc = "returned" /\ pending = <<>>
    /\ wpc' = IF mode = "loop" THEN "idle" ELSE "exit"
    /\ polls' = polls + 1
    /\ batch' = <<>> /\ processed' = <<>> /\ trail' = NoTrail
    /\ book_id' = "b1" /\ state' = EmptyState
    /\ llm_calls' = 0 /\ visited' = <<>> /\ reads' = <<>>
    /\ UNCHANGED <<dbvars, chapter_target, pc, edits, mode, limit, explicit_ids, pending,
                   delivery, keyed, ivars, pdf>>

\* the rows a pass can find: imported ones, some with the outline approved and
\* the output status moved on by hand (no stage writes these two values)
WorkerRows ==
    {[r EXCEPT !.outline_status = o, !.book_output_status = s] :
        r \in {x \in ImportedRows : /\ x.notes_on_outline_before \in {NoText, <<"x">>}
                                    /\ x.status_outline_notes \in {"yes", "no_notes_needed"}
                                    /\ x.final_review_notes_status = "no_notes_needed"
                                    /\ x.final_review_notes = NoText},
        o \in {"pending", "approved"},
        s \in {"not_started", "in_progress"}}

\* worker.py 155-160, 180-182: two --book-id arguments
IdLists == {<<x, y>> : x, y \in BookIds}

\* worker.py 180-186 with 108, 143 and 166-171: what the command line makes of
\* mode, limit and book_ids
Invocations ==
    [mode : {"ids"}, limit : {DefaultLimit}, book_ids : IdLists]
    \cup [mode : {"once"}, limit : 1..MaxLimit \cup {DefaultLimit}, book_ids : {<<>>}]
    \cup [mode : {"loop"}, limit : {DefaultLimit}, book_ids : {<<>>}]

InitWorker ==
    /\ books \in [BookIds -> WorkerRows]
    /\ chapters = [x \in BookIds |-> [n \in ChapterNumbers |-> NoChapter]]
    /\ chapter_summaries = [x \in BookIds |-> [n \in ChapterNumbers |-> NoText]]
    /\ notifications = <<>>
    /\ storage = {}
    /\ chapter_target = 1
    /\ book_id = "b1"
    /\ state = EmptyState
    /\ pc = "returned"
    /\ llm_calls = 0 /\ visited = <<>> /\ reads = <<>> /\ edits = 0
    /\ \E a \in Invocations :
          mode = a.mode /\ limit = a.limit /\ explicit_ids = a.book_ids
    /\ wpc = "idle"
    /\ pending = <<>> /\ batch = <<>> /\ processed = <<>> /\ polls = 0
    /\ trail = NoTrail
    /\ delivery = NoDelivery /\ pdf = "none"
    /\ keyed = [x \in BookIds |-> [n \in ChapterNumbers |-> NoKeyed]]
    /\ catalog = [x \in BookIds |-> ImportedEntry] /\ sync = NoSync

NextWorker ==
    \/ run_worker_once
    \/ process_book_starts
    \/ run_worker_once_returns
    \/ LoadInitialState
    \/ generate_outline
    \/ generate_outline_raises
    \/ router_after_outline
    \/ router_after_outline_raises
    \/ generate_next_chapter
    \/ generate_next_chapter_raises
    \/ router_after_chapter
    \/ compile_book
    \/ compile_book_raises
    \/ router_after_compile
    \/ notify
    \/ notify_raises
    \/ process_book_returns
    \/ process_book_except

SpecWorker == InitWorker /\ [][NextWorker]_vars

----------------------------------------------------------------------------
(* sync_excel.py and sync_sheets.py: the two import adapters *)

\* ids the datastore gives to new records, in the order it hands them out
RecordIds == <<"b1", "b2", "b3", "b4", "b5">>

\* str.lower() on the words a title is made of
Lower(c) == IF c = "Required" THEN "required" ELSE c

\* sync_excel.py 105
Keywords == {"required", "optional", "default:", "yes/no"}

\* mutant: the title is not lower-cased before the test
IsDescription_CaseSensitive(title) == \E i \in DOMAIN title : title[i] \in Keywords

\* sync_excel.py 103-107: a keyword is part of the lower-cased title
IsDescription(title) == \E i \in DOMAIN title : Lower(title[i]) \in Keywords

\* sync_excel.py 45, sync_sheets.py 60: start_row
StartRow(adapter) == IF adapter = "excel" THEN 3 ELSE 2

\* sync_excel.py 30, 34-36, 99-107; sync_sheets.py 49-51, 103-105: the row is
\* passed over.  Only the local-file adapter looks for description text.
Skipped(adapter, cell) ==
    \/ Strip(cell) = <<>>
    \/ adapter = "excel" /\ IsDescription(Strip(cell))

\* sync_excel.py 109-118, sync_sheets.py 108: the cell when it holds a number
\* (0 standing for an empty cell), the row number otherwise
RowId(cell, idx) == IF cell # 0 THEN cell ELSE idx

\* sync_excel.py 121-127, sync_sheets.py 111-117: the records the lookup matches
Existing(title, id) ==
    {r \in Range(RecordIds) :
        /\ catalog[r].present
        /\ catalog[r].title = title \/ catalog[r].sheet_row_id = id}

\* the id of the record an insert creates
NewId ==
    LET free == {i \in DOMAIN RecordIds : ~catalog[RecordIds[i]].present}
    IN  RecordIds[CHOOSE i \in free : \A j \in free : i <= j]

\* mutant: the two statuses are defaults of a new record only
Imported_KeepsStatus(row, notes) ==
    [row EXCEPT !.notes_on_outline_before = notes,
                !.status_outline_notes = "no_notes_needed",
                !.chapter_notes_status = "no_notes_needed",
                !.final_review_notes_status = "no_notes_needed"]

\* sync_excel.py 137-164, sync_sheets.py 127-154: upsert_data applied to a row
\* of the table; the optional cells of the sheet are empty, so the defaults go in
Imported(row, notes) ==
    [row EXCEPT !.notes_on_outline_before = notes,
                !.status_outline_notes = "no_notes_needed",
                !.chapter_notes_status = "no_notes_needed",
                !.final_review_notes_status = "no_notes_needed",
                !.outline_status = "pending",
                !.book_output_status = "not_started"]

\* sync_excel.py 90-173, sync_sheets.py 94-165: one pass of the loop over the
\* data rows that does not raise
sync_row ==
    /\ sync.pc = "rows" /\ sync.next <= Len(sync.rows)
    /\ LET row == sync.rows[sync.next]
           idx == StartRow(sync.adapter) + sync.next - 1
           title == Strip(row.title)
           id == RowId(row.sheet_row_id, idx)
           found == Existing(title, id)
       IN  IF Skipped(sync.adapter, row.title)
           THEN /\ sync' = [sync EXCEPT !.next = @ + 1]
                /\ UNCHANGED <<books, catalog>>
           ELSE /\ Cardinality(found) <= 1
                /\ \E r \in (IF found = {} THEN {NewId} ELSE found) :
                      /\ catalog' = [catalog EXCEPT ![r] =
                             [present |-> TRUE, title |-> title, sheet_row_id |-> id]]
                      /\ books' = [books EXCEPT ![r] =
                             Imported(IF found = {} THEN DefaultRow ELSE @, row.notes)]
                      /\ sync' = [sync EXCEPT !.next = @ + 1,
                                              !.book_ids = Append(@, r)]
    /\ UNCHANGED <<chapters, chapter_summaries, notifications, storage, chapter_target,
                   book_id, state, pc, llm_calls, visited, reads, edits, wvars, delivery,
                   keyed, pdf>>

\* sync_excel.py 121-127, sync_sheets.py 111-117: .maybe_single() on a lookup
\* that matches two records raises, and the import is over
sync_row_raises ==
    /\ sync.pc = "rows" /\ sync.next <= Len(sync.rows)
    /\ LET row == sync.rows[sync.next]
           idx == StartRow(sync.adapter) + sync.next - 1
       IN  /\ ~Skipped(sync.adapter, row.title)
           /\ Cardinality(Existing(Strip(row.title), RowId(row.sheet_row_id, idx))) > 1
    /\ sync' = [sync EXCEPT !.pc = "raised"]
    /\ UNCHANGED <<dbvars, catalog, chapter_target, book_id, state, pc, llm_calls, visited,
                   reads, edits, wvars, delivery, keyed, pdf>>

\* sync_excel.py 175-176, sync_sheets.py 167-168
sync_returns ==
    /\ sync.pc = "rows" /\ sync.next > Len(sync.rows)
    /\ sync' = [sync EXCEPT !.pc = "done"]
    /\ UNCHANGED <<dbvars, catalog, chapter_target, book_id, state, pc, llm_calls, visited,
                   reads, edits, wvars, delivery, keyed, pdf>>

\* title cells: empty, blank, two titles (one of them also with spaces around
\* it) and the description text of the template
TitleCells == {<<>>, <<" ">>, <<"A">>, <<" ", "A", " ">>, <<"B">>, <<"Required">>}

\* the data rows of a sheet; the optional columns are empty
SheetRows == [title : TitleCells, sheet_row_id : {0, 3, 4}, notes : {<<"x">>}]

\* a book that an earlier import created and a run has compiled since
CompiledRow ==
    [DefaultRow EXCEPT !.outline = <<"o">>, !.outline_status = "generated",
                       !.book_output_status = "ready", !.total_chapters = 1,
                       !.output_file_url = "docx_url"]

\* worker.py 100-102: the same book when its run raised after the outline
FailedRow ==
    [CompiledRow EXCEPT !.book_output_status = "error", !.output_file_url = None]

\* the books row an earlier import created, as the runs since have left it
ExistingRows == {CompiledRow, FailedRow, StoppedRow}

InitImport ==
    /\ \E had \in BOOLEAN :
          /\ catalog = [r \in Range(RecordIds) |->
                           IF had /\ r = "b1" THEN ImportedEntry ELSE NoEntry]
          /\ \E row \in (IF had THEN ExistingRows ELSE {DefaultRow}) :
                books = [r \in Range(RecordIds) |->
                           IF had /\ r = "b1" THEN row ELSE DefaultRow]
    /\ \E a \in {"excel", "sheets"}, k \in 1..MaxRows :
          \E rows \in [1..k -> SheetRows] :
             sync = [adapter |-> a, pc |-> "rows", rows |-> rows, next |-> 1,
                     book_ids |-> <<>>]
    /\ chapters = [x \in BookIds |-> [n \in ChapterNumbers |-> NoChapter]]
    /\ chapter_summaries = [x \in BookIds |-> [n \in ChapterNumbers |-> NoText]]
    /\ notifications = <<>>
    /\ storage = {}
    /\ chapter_target = 1
    /\ book_id = "b1"
    /\ state = EmptyState
    /\ pc = "returned"
    /\ llm_calls = 0 /\ visited = <<>> /\ reads = <<>> /\ edits = 0
    /\ mode = "none" /\ limit = 0 /\ explicit_ids = <<>> /\ wpc = "off"
    /\ pending = <<>> /\ batch = <<>> /\ processed = <<>> /\ polls = 0
    /\ trail = NoTrail
    /\ delivery = NoDelivery /\ pdf = "none"
    /\ keyed = [x \in BookIds |-> [n \in ChapterNumbers |-> NoKeyed]]

NextImport ==
    \/ sync_row
    \/ sync_row_raises
    \/ sync_returns

SpecImport == InitImport /\ [][NextImport]_vars

----------------------------------------------------------------------------
(* Helpers of the properties *)

Last(seq) == seq[Len(seq)]

NoNotesNeeded == "no_notes_needed"

\* the gating flag stored for chapter n of the book, None when there is no row
StoredStatus(n) ==
    IF chapters[book_id][n].present THEN chapters[book_id][n].chapter_notes_status ELSE None

\* a text with a character other than a blank
NonBlank(t) == t # NoText /\ \E i \in 1..Len(t) : t[i] # " "

\* an execution of the chapter stage for a chapter N <= total chapters
ChapterStageRuns ==
    /\ pc = "generate_next_chapter"
    /\ visited' # visited
    /\ state.current_chapter_number <= state.total_chapters

\* the stage neither called the model nor wrote to the datastore
NoCallNoWrite == llm_calls' = llm_calls /\ UNCHANGED dbvars

\* the outline router decides after outline_generated
OutlineRouterDecides ==
    /\ pc = "router_after_outline"
    /\ state.event = "outline_generated"
    /\ pc' \notin {pc, "raised"}

\* compile_book returns
CompileReturns == pc = "compile_book" /\ pc' = "router_after_compile"

----------------------------------------------------------------------------
(* C1 *)

\* C1 as stated: the chapter stage for N <= total calls the model only if the
\* stored flag of chapter N is no_notes_needed; yes gives
\* waiting_for_chapter_notes; every other value, empty and absent included,
\* gives paused_for_chapter_notes_status, without model call or write.
C1_AsStated ==
    [][ChapterStageRuns =>
          LET f == StoredStatus(state.current_chapter_number) IN
          /\ llm_calls' > llm_calls => f = NoNotesNeeded
          /\ f = "yes" => state'.event = "waiting_for_chapter_notes" /\ NoCallNoWrite
          /\ f \notin {NoNotesNeeded, "yes"} =>
                state'.event = "paused_for_chapter_notes_status" /\ NoCallNoWrite]_vars

\* C1 amended: the chapter stage for N <= total calls the model exactly when
\* the status its lookup yields is no_notes_needed or None, None standing for
\* a missing row, a NULL flag or a lookup that raised; yes gives
\* waiting_for_chapter_notes and any other value, the empty string included,
\* gives paused_for_chapter_notes_status, both without model call or write.
C1_ChapterGate ==
    [][ChapterStageRuns =>
          LET n == state.current_chapter_number
              r == Last(reads')
              f == r.flag
          IN  /\ r.gate = "chapter" /\ r.n = n
              /\ f = IF r.lookup_ok THEN StoredStatus(n) ELSE None
              /\ f \in {NoNotesNeeded, None} => llm_calls' = llm_calls + 1
              /\ f = "yes" => state'.event = "waiting_for_chapter_notes" /\ NoCallNoWrite
              /\ f \notin {NoNotesNeeded, None, "yes"} =>
                    state'.event = "paused_for_chapter_notes_status" /\ NoCallNoWrite]_vars

\* the stage has generated chapter 1 for a book without a chapter row, and
\* has paused on an empty flag
C1_Witness ==
    /\ pc = "router_after_chapter"
    /\ Last(reads).gate = "chapter"
    /\ \/ /\ Last(reads).flag = None /\ Last(reads).lookup_ok
          /\ state.event = "chapter_generated"
          /\ state.current_chapter_number = 2
       \/ /\ Last(reads).flag = ""
          /\ state.event = "paused_for_chapter_notes_status"

----------------------------------------------------------------------------
(* C2 *)

\* the chapter stage went on to the model call
ChapterProceeds == llm_calls' > llm_calls

\* C2 as stated: each of the three gates lets the run proceed exactly when
\* the status it is given is no_notes_needed.
C2_AsStated ==
    [][/\ OutlineRouterDecides =>
             (pc' = "generate_next_chapter" <=>
                 books[book_id].status_outline_notes = NoNotesNeeded)
       /\ ChapterStageRuns =>
             (ChapterProceeds <=> Last(reads').flag = NoNotesNeeded)
       /\ CompileReturns =>
             (state'.event = "book_compiled" <=>
                 books[book_id].final_review_notes_status = NoNotesNeeded)]_vars

\* C2 amended: the gates differ.  The outline gate proceeds exactly for
\* no_notes_needed; the chapter gate exactly for no_notes_needed or None (no
\* row, NULL, failed lookup); the final-review gate exactly for
\* no_notes_needed or final-review notes with a non-blank character.
C2_Gates ==
    [][/\ OutlineRouterDecides =>
             (pc' = "generate_next_chapter" <=>
                 books[book_id].status_outline_notes = NoNotesNeeded)
       /\ ChapterStageRuns =>
             (ChapterProceeds <=> Last(reads').flag \in {NoNotesNeeded, None})
       /\ CompileReturns =>
             (state'.event = "book_compiled" <=>
                 \/ books[book_id].final_review_notes_status = NoNotesNeeded
                 \/ NonBlank(books[book_id].final_review_notes))]_vars

\* all three gates have let one run through, the chapter gate on a missing
\* status and the final-review gate on notes alone
C2_Witness ==
    /\ pc = "router_after_compile"
    /\ state.event = "book_compiled"
    /\ Last(reads).gate = "final" /\ Last(reads).flag # NoNotesNeeded
    /\ \E i \in 1..Len(reads) : reads[i].gate = "chapter" /\ reads[i].flag = None
    /\ \E i \in 1..Len(reads) : reads[i].gate = "outline" /\ reads[i].flag = NoNotesNeeded

----------------------------------------------------------------------------
(* C3 *)

\* C3: after outline_generated the outline router reads the outline gating
\* flag from the datastore and routes no_notes_needed to the chapter stage,
\* yes to notify with outline_waiting_for_notes, and any other value, empty
\* and NULL included, to notify with outline_paused_missing_status.
C3_OutlineRouter ==
    [][OutlineRouterDecides =>
          LET v == books[book_id].status_outline_notes IN
          /\ v = NoNotesNeeded =>
                pc' = "generate_next_chapter" /\ state'.event = "outline_generated"
          /\ v = "yes" =>
                pc' = "notify" /\ state'.event = "outline_waiting_for_notes"
          /\ v \notin {NoNotesNeeded, "yes"} =>
                pc' = "notify" /\ state'.event = "outline_paused_missing_status"]_vars

\* the router has paused the run on a NULL flag
C3_Witness ==
    /\ pc = "notify"
    /\ Last(reads).gate = "outline" /\ Last(reads).flag = None
    /\ state.event = "outline_paused_missing_status"

----------------------------------------------------------------------------
(* C4 *)

\* C4: compile_book compiles (uploads the text and the structured document,
\* sets book_output_status ready, emits book_compiled) if and only if the
\* books row in the datastore when the stage runs has final-review flag
\* no_notes_needed or final-review notes with a non-blank character;
\* otherwise it emits final_review_not_ready and changes nothing.  A run of
\* the stage that raises emits neither event.
C4_CompilePrecondition ==
    [][/\ CompileReturns =>
             LET row == books[book_id]
                 ready == \/ row.final_review_notes_status = NoNotesNeeded
                          \/ NonBlank(row.final_review_notes)
             IN  IF ready
                 THEN /\ state'.event = "book_compiled"
                      /\ books'[book_id].book_output_status = "ready"
                      /\ {File(book_id, "txt"), File(book_id, "docx")} \subseteq storage'
                 ELSE /\ state'.event = "final_review_not_ready"
                      /\ UNCHANGED dbvars
       /\ (pc = "compile_book" /\ pc' = "raised") =>
             /\ state' = state
             /\ books'[book_id].book_output_status = books[book_id].book_output_status]_vars

\* the stage compiled although the copy loaded at the start of the run was
\* not ready, and refused although the loaded copy was ready
C4_Witness ==
    /\ pc = "router_after_compile"
    /\ \/ /\ state.event = "book_compiled"
          /\ state.final_review_notes_status # NoNotesNeeded
          /\ ~NonBlank(state.final_review_notes)
       \/ /\ state.event = "final_review_not_ready"
          /\ state.final_review_notes_status = NoNotesNeeded

----------------------------------------------------------------------------
(* C5 *)

Scenario1 ==
    <<<<"generate_outline", 0>>, <<"generate_next_chapter", 1>>,
      <<"generate_next_chapter", 2>>, <<"compile_book", 0>>, <<"notify", 0>>>>

\* the outline router has read flag v from the datastore
OutlineFlagRead(v) == \E i \in 1..Len(reads) : reads[i].gate = "outline" /\ reads[i].flag = v

\* every gate of the run so far has read a value that lets it proceed
AllGatesOpen ==
    \A i \in 1..Len(reads) :
       /\ reads[i].gate = "outline" => reads[i].flag = NoNotesNeeded
       /\ reads[i].gate = "chapter" => reads[i].flag \in {NoNotesNeeded, None}
       /\ reads[i].gate = "final" =>
             reads[i].flag = NoNotesNeeded \/ NonBlank(reads[i].notes)

Scenario1Ends ==
    /\ visited = Scenario1
    /\ state.event = "book_compiled"
    /\ state.book_output_status = "ready"
    /\ books[book_id].book_output_status = "ready"

----------------------------------------------------------------------------
(* C6 *)

\* C6: for a book whose outline-request notes are empty, the outline stage
\* emits missing_notes_on_outline_before, the run goes from the outline
\* stage straight to notify, and the invocation makes no model call and
\* writes no outline to the datastore.
C6_EmptyNotes ==
    (pc # "start" /\ state.notes_on_outline_before = <<>>) =>
       /\ llm_calls = 0
       /\ books[book_id].outline = NoText
       /\ books[book_id].outline_status = "pending"
       /\ \/ visited = <<>> /\ pc = "generate_outline"
          \/ /\ visited = <<<<"generate_outline", 0>>>>
             /\ pc \in {"router_after_outline", "notify"}
             /\ state.event = "missing_notes_on_outline_before"
          \/ /\ visited = <<<<"generate_outline", 0>>, <<"notify", 0>>>>
             /\ pc \in {"END", "raised", "returned"}
             /\ state.event = "missing_notes_on_outline_before"

C6_Witness ==
    /\ pc = "END"
    /\ state.notes_on_outline_before = <<>>
    /\ state.event = "missing_notes_on_outline_before"
    /\ Len(notifications) = 1
    /\ notifications[1].type = "missing_notes_on_outline_before"

----------------------------------------------------------------------------
(* C7 *)

ChapterStageEntered == \E i \in 1..Len(visited) : visited[i][1] = "generate_next_chapter"

\* C7: once the outline is generated and the router has read outline gating
\* flag yes from the datastore, the run goes to notify with event
\* outline_waiting_for_notes and the chapter stage is not entered in that
\* invocation.
C7_OutlineYes ==
    OutlineFlagRead("yes") =>
       /\ state.event = "outline_waiting_for_notes"
       /\ pc \in {"notify", "END", "raised", "returned"}
       /\ visited \in {<<<<"generate_outline", 0>>>>,
                       <<<<"generate_outline", 0>>, <<"notify", 0>>>>}
       /\ ~ChapterStageEntered
       /\ llm_calls = 1

C7_Witness ==
    /\ OutlineFlagRead("yes")
    /\ pc = "END"
    /\ Len(notifications) = 1
    /\ notifications[1].type = "outline_waiting_for_notes"

----------------------------------------------------------------------------
(* C8 *)

\* C8: when the chapter stage has generated chapter N (event
\* chapter_generated, index N+1), the chapter router goes back to the chapter
\* stage if N+1 <= total chapters and to compile_book otherwise.
C8_ChapterRouter ==
    state.event = "chapter_generated" =>
       /\ pc = "router_after_chapter" =>
             Last(visited) = <<"generate_next_chapter", state.current_chapter_number - 1>>
       /\ pc = "generate_next_chapter" =>
             state.current_chapter_number <= state.total_chapters
       /\ pc = "compile_book" =>
             state.current_chapter_number = state.total_chapters + 1
       /\ pc # "notify"

\* chapter 3 of 3 is generated, the index is 4 and the router has chosen
\* compile_book
C8_Witness ==
    /\ pc = "compile_book"
    /\ state.event = "chapter_generated"
    /\ state.total_chapters = 3
    /\ state.current_chapter_number = 4
    /\ Last(visited) = <<"generate_next_chapter", 3>>

----------------------------------------------------------------------------
(* C9 *)

\* C9: when the outline gating flag in the datastore differs from the value
\* loaded at the start of the run, the outline router decides by the
\* datastore value.
C9_FreshOutlineFlag ==
    [][(OutlineRouterDecides
          /\ state.status_outline_notes # books[book_id].status_outline_notes) =>
          LET v == books[book_id].status_outline_notes IN
          /\ state'.status_outline_notes = v
          /\ pc' = "generate_next_chapter" <=> v = NoNotesNeeded
          /\ state'.event = "outline_waiting_for_notes" <=> v = "yes"
          /\ state'.event = "outline_paused_missing_status" <=>
                v \notin {NoNotesNeeded, "yes"}]_vars

\* the run loaded no_notes_needed, the editor then set yes, and the router
\* made the run wait
C9_Witness ==
    /\ Len(reads) = 2
    /\ reads[1].gate = "load" /\ reads[1].flag = NoNotesNeeded
    /\ reads[2].gate = "outline" /\ reads[2].flag = "yes"
    /\ pc = "notify"
    /\ state.event = "outline_waiting_for_notes"

----------------------------------------------------------------------------
(* C10 *)

\* C10: an execution of the chapter stage that emits chapter_generated
\* increases the current chapter index by exactly one, and every other step
\* of the invocation leaves the index as it is.
C10_IndexStep ==
    [][IF /\ pc = "generate_next_chapter"
          /\ pc' = "router_after_chapter"
          /\ state'.event = "chapter_generated"
       THEN state'.current_chapter_number = state.current_chapter_number + 1
       ELSE state'.current_chapter_number = state.current_chapter_number]_vars

C10_Witness ==
    /\ pc = "router_after_chapter"
    /\ state.event = "chapter_generated"
    /\ state.current_chapter_number = 3
    /\ llm_calls = 3

----------------------------------------------------------------------------
(* C11 *)

\* C11: in every reachable state of an invocation the current chapter index
\* is at least 1 and at most the total chapter count plus one.
C11_IndexRange ==
    /\ state.current_chapter_number >= 1
    /\ state.current_chapter_number <= state.total_chapters + 1

----------------------------------------------------------------------------
(* C17 *)

\* C17: whenever notify runs with an event set, neither a failed nor a skipped
\* e-mail or chat delivery aborts it before the audit insert, and when that
\* insert goes through exactly one audit record, with status "sent", has been
\* appended and the stage returns.
C17_AuditRecord ==
    [][(pc = "notify" /\ state.event \notin {None, ""} /\ pc' # pc) =>
          /\ delivery'.insert \in {"ok", "failed"}
          /\ delivery'.insert = "ok" =>
                /\ pc' = "END"
                /\ Len(notifications') = Len(notifications) + 1
                /\ Last(notifications').status = "sent"
                /\ Last(notifications').type = state.event
                /\ Last(notifications').book_id = book_id
                /\ SubSeq(notifications', 1, Len(notifications)) = notifications]_vars

\* both deliveries failed and the record was written all the same
C17_Witness ==
    /\ pc = "END"
    /\ delivery = [email |-> "failed", teams |-> "failed", insert |-> "ok"]
    /\ Len(notifications) = 1
    /\ notifications[1].status = "sent"
    /\ notifications[1].type = "book_compiled"

----------------------------------------------------------------------------
(* C16 *)

\* how often the invocation has entered a stage
Entries(node) == Cardinality({i \in 1..Len(visited) : visited[i][1] = node})

\* C16: within one invocation the outline stage and the compile stage are
\* entered at most once each and the chapter stage at most total chapters + 1
\* times.
C16_StageEntries ==
    /\ Entries("generate_outline") <= 1
    /\ Entries("compile_book") <= 1
    /\ Entries("generate_next_chapter") <= state.total_chapters + 1

----------------------------------------------------------------------------
(* C20 *)

\* C20: notify is terminal: once it has been entered no other stage is
\* entered in that invocation and the graph run is over, and it is entered at
\* most once.
C20_NotifyTerminal ==
    /\ \A i \in 1..Len(visited) : visited[i][1] = "notify" => i = Len(visited)
    /\ Entries("notify") <= 1
    /\ Entries("notify") = 1 => pc \in {"END", "raised", "returned"}

\* a run that went through all four stages and has returned
C20_Witness ==
    /\ pc = "returned"
    /\ Entries("generate_outline") = 1
    /\ Entries("generate_next_chapter") = 2
    /\ Entries("compile_book") = 1
    /\ Last(visited)[1] = "notify"

----------------------------------------------------------------------------
(* Helpers of the worker properties *)

Occurrences(seq, x) == Cardinality({i \in DOMAIN seq : seq[i] = x})

\* the state right after run_worker_once got its list from find_pending_books:
\* no book of the pass has been touched yet, so books is what the queries saw
JustDiscovered == wpc = "pass" /\ mode # "ids" /\ processed = <<>> /\ pc = "returned"

Matching == PendingOutline \cup ApprovedOutline \cup InProgress

\* the loop of the pass is through
PassDone == wpc = "pass" /\ pending = <<>> /\ pc = "returned"

----------------------------------------------------------------------------
(* C13 *)

\* C13: the list find_pending_books returns holds no book twice: a book that
\* matches one, two or three of the filters is in it once (whenever the limit
\* does not cut it off), and a book that matches none is not in it.
C13_NoDuplicates ==
    JustDiscovered =>
        \A b \in BookIds :
            /\ Occurrences(batch, b) <= 1
            /\ b \notin Matching => Occurrences(batch, b) = 0
            /\ (b \in Matching /\ limit >= Cardinality(BookIds)) => Occurrences(batch, b) = 1

\* both books match the second and the third filter and each is listed once
C13_Witness ==
    /\ JustDiscovered
    /\ ApprovedOutline = BookIds /\ InProgress = BookIds
    /\ Len(batch) = 2

----------------------------------------------------------------------------
(* C18 *)

\* C18: a pass started with batch limit L and no explicit ids hands at most L
\* books to process_book.
C18_BatchLimit ==
    (wpc = "pass" /\ mode # "ids") => Len(processed) <= limit

----------------------------------------------------------------------------
(* C14 *)

\* process_book's except branch has just run for book_id
ExceptStep == pc = "raised" /\ pc' = "returned"

\* C14 as stated: whenever a book's run raises, the book's output status is
\* `error` afterwards, and the pass goes on with the books that remain, each
\* handed to process_book once.
C14_AsStated ==
    /\ [][ExceptStep => books'[book_id].book_output_status = "error"]_vars
    /\ [](wpc = "pass" => processed \o pending = batch)

\* C14: whenever a book's run raises, the except branch either sets that
\* book's output status to `error`, changing nothing else, or (its update
\* failing too) leaves the datastore as it was; it never touches the list of
\* the pass, so the pass goes on with the books that remain, each handed to
\* process_book once and none again.
C14_ErrorContinues ==
    /\ [][ExceptStep =>
            /\ \/ books' = [books EXCEPT ![book_id] =
                               [@ EXCEPT !.book_output_status = "error"]]
               \/ books' = books
            /\ UNCHANGED <<chapters, chapter_summaries, notifications, storage>>
            /\ UNCHANGED <<pending, batch, processed, wpc>>]_vars
    /\ [](wpc = "pass" => processed \o pending = batch)
    /\ [](PassDone => processed = batch)

\* the first book of a discovered pass failed and was marked, the second went
\* through to the compiled book
C14_Witness ==
    /\ PassDone /\ mode # "ids"
    /\ Len(processed) = 2
    /\ books[processed[1]].book_output_status = "error"
    /\ books[processed[2]].book_output_status = "ready"

----------------------------------------------------------------------------
(* C15 *)

\* C15 as stated: a book marked `error` after a failed run is in the list of
\* no later pass.
C15_AsStated ==
    JustDiscovered =>
        \A b \in Range(batch) : books[b].book_output_status # "error"

\* C15: a book marked `error` after a failed run is in the list of a later
\* pass exactly when its outline status is still `pending` and its pre-outline
\* notes are not NULL (the limit of the loop being above the number of books).
C15_ErrorReselected ==
    (JustDiscovered /\ limit >= Cardinality(BookIds)) =>
        \A b \in BookIds :
            books[b].book_output_status = "error" =>
                (b \in Range(batch) <=> /\ books[b].outline_status = "pending"
                                        /\ books[b].notes_on_outline_before # NoText)

\* second pass of the loop: one book marked `error` is listed again, the other
\* one marked `error` is not
C15_Witness ==
    /\ JustDiscovered /\ mode = "loop" /\ polls = 1
    /\ \E b \in Range(batch) : books[b].book_output_status = "error"
    /\ \E b \in BookIds \ Range(batch) : books[b].book_output_status = "error"

----------------------------------------------------------------------------
(* C12 *)

\* the chapter stage has just returned with a generated chapter
ChapterJustGenerated == pc = "router_after_chapter" /\ state.event = "chapter_generated"

----------------------------------------------------------------------------
(* C19 *)

\* the title cell of data row i holds a title, and no description text
ProperTitle(i) ==
    LET title == Strip(sync.rows[i].title)
    IN  title # <<>> /\ ~\E j \in DOMAIN title : Lower(title[j]) \in Keywords

\* the data rows with a proper title, in the order of the sheet
RECURSIVE ProperRows(_)
ProperRows(i) ==
    IF i > Len(sync.rows) THEN <<>>
    ELSE (IF ProperTitle(i) THEN <<i>> ELSE <<>>) \o ProperRows(i + 1)

----------------------------------------------------------------------------
(* C21 *)

\* the chapter stage is about to be entered for the first time
ChapterStageFirstEntry == pc = "generate_next_chapter" /\ ~ChapterStageEntered

\* C21: the chapter stage is entered only after the outline stage of the same
\* invocation has run first, called the model and emitted outline_generated,
\* so that the run state (and the books row) holds the outline text it produced.
C21_OutlineBeforeChapters ==
    /\ (pc = "generate_next_chapter" \/ ChapterStageEntered) =>
          /\ visited # <<>> /\ visited[1] = <<"generate_outline", 0>>
          /\ llm_calls >= 1
          /\ state.outline \in {Strip(t) : t \in OutlineSamples}
          /\ Truthy(state.outline)
          /\ books[book_id].outline = state.outline
    /\ ChapterStageFirstEntry => state.event = "outline_generated"

\* the router has just sent the run to the chapter stage
C21_Witness ==
    /\ ChapterStageFirstEntry
    /\ state.outline = <<"o">>
    /\ books[book_id].outline_status = "generated"

----------------------------------------------------------------------------
(* C22 *)

\* the chapter stage calls the model (chapters.py 120), whether or not the
\* stage returns afterwards
ChapterModelCall == pc = "generate_next_chapter" /\ llm_calls' = llm_calls + 1

\* the list holds a summary for every chapter below n, the one stored for it
HoldsSummariesBelow(summaries, n) ==
    \A i \in 1..(n - 1) :
       \E j \in 1..Len(summaries) :
          /\ summaries[j].chapter_number = i
          /\ summaries[j].summary = chapter_summaries[book_id][i]

\* C22: whenever the chapter stage calls the model for chapter N, the summary
\* list of the run state holds a summary for every chapter 1..N-1; when the
\* stage returns, the list it leaves is that list followed by the summary of N.
C22_SummariesPresent ==
    [][ChapterModelCall =>
          LET n == state.current_chapter_number IN
          /\ HoldsSummariesBelow(state.chapter_summaries, n)
          /\ Backfilled(state.chapter_summaries, n, TRUE) = state.chapter_summaries
          /\ pc' = "router_after_chapter" =>
                /\ Len(state'.chapter_summaries) = Len(state.chapter_summaries) + 1
                /\ SubSeq(state'.chapter_summaries, 1, Len(state.chapter_summaries))
                      = state.chapter_summaries
                /\ Last(state'.chapter_summaries).chapter_number = n]_vars

\* the model was called for chapter 3 with the summaries of chapters 1 and 2
C22_Witness ==
    /\ pc = "router_after_chapter"
    /\ Last(visited) = <<"generate_next_chapter", 3>>
    /\ state.event = "chapter_generated"
    /\ Len(state.chapter_summaries) = 3
    /\ \A i \in 1..3 : state.chapter_summaries[i].chapter_number = i

----------------------------------------------------------------------------
(* C23 *)

\* C23: when the chapter stage is entered with the current index above the
\* total chapter count (a total of 0 included), it emits all_chapters_done
\* without a model call or a write to the datastore and returns, and the
\* chapter router, given that event, routes to the compile stage.
C23_AllChaptersDone ==
    [][/\ (/\ pc = "generate_next_chapter"
            /\ visited' # visited
            /\ state.current_chapter_number > state.total_chapters) =>
              /\ state'.event = "all_chapters_done"
              /\ NoCallNoWrite
              /\ state'.chapter_summaries = state.chapter_summaries
              /\ state'.current_chapter_number = state.current_chapter_number
              /\ pc' = "router_after_chapter"
       /\ (/\ pc = "router_after_chapter"
            /\ state.event = "all_chapters_done"
            /\ pc' # pc) => pc' = "compile_book"]_vars

\* a book with a total of 0 chapters has reached the compile stage
C23_Witness ==
    /\ pc = "compile_book"
    /\ state.total_chapters = 0
    /\ state.event = "all_chapters_done"
    /\ visited = <<<<"generate_outline", 0>>, <<"generate_next_chapter", 1>>>>
    /\ llm_calls = 1

----------------------------------------------------------------------------
(* C24 *)

\* compile_book ends, returning or raising, with the PDF failed and every
\* required step (reads, TXT and DOCX upload, books update) gone through
PdfAloneFails ==
    /\ pc = "compile_book" /\ pc' # pc
    /\ pdf' \in PdfFailures
    /\ ~(pc' = "raised" /\ pdf' = "skipped")

\* C24: if producing the PDF fails at any step (assembling its content,
\* rendering it, uploading it), the compile stage still sets output status
\* ready with the URL of the DOCX and emits book_compiled, and returns.
C24_PdfOptional ==
    [][PdfAloneFails =>
          /\ pc' = "router_after_compile"
          /\ books'[book_id].book_output_status = "ready"
          /\ books'[book_id].output_file_url = "docx_url"
          /\ state'.event = "book_compiled"]_vars

----------------------------------------------------------------------------
(* C25 *)

\* compile_book runs on a books row whose final review is not ready: the flag
\* is not no_notes_needed and the notes are NULL, empty or blank
CompileFindsNotReady ==
    /\ pc = "compile_book" /\ visited' # visited
    /\ books[book_id].final_review_notes_status # NoNotesNeeded
    /\ ~NonBlank(books[book_id].final_review_notes)

\* C25: when the compile stage finds the final review not ready, it uploads
\* no file and leaves the output status and the output URL of the book (and
\* the rest of the datastore) as they were; when it returns, the event is
\* final_review_not_ready.
C25_NotReadyNoFiles ==
    [][CompileFindsNotReady =>
          /\ storage' = storage
          /\ books'[book_id].book_output_status = books[book_id].book_output_status
          /\ books'[book_id].output_file_url = books[book_id].output_file_url
          /\ UNCHANGED dbvars
          /\ pdf' = pdf
          /\ pc' = "router_after_compile" => state'.event = "final_review_not_ready"]_vars

\* the stage has returned final_review_not_ready on blank notes
C25_Witness ==
    /\ pc = "router_after_compile"
    /\ state.event = "final_review_not_ready"
    /\ books[book_id].final_review_notes = <<" ">>
    /\ storage = {}
    /\ books[book_id].book_output_status = "not_started"
    /\ books[book_id].output_file_url = None

----------------------------------------------------------------------------
(* C26 *)

\* the outline stage calls the model and does not get to its end
OutlineStageFails ==
    /\ pc = "generate_outline"
    /\ llm_calls' = llm_calls + 1
    /\ state'.event # "outline_generated"

\* the invocation is past an outline stage that failed
OutlineStageFailed ==
    /\ visited # <<>> /\ Last(visited) = <<"generate_outline", 0>>
    /\ state.event = None
    /\ pc # "generate_outline"

\* C26: a failing model call in the outline stage ends the invocation: the
\* call was made once, the datastore holds no outline, outline status or
\* chapter count of that stage, and from then on no stage (notify included)
\* is entered and no model call is made; all that follows is the error mark
\* process_book puts on the book.
C26_OutlineFailureFatal ==
    [][/\ OutlineStageFails =>
             /\ pc' = "raised"
             /\ llm_calls' = 1
             /\ visited' = <<<<"generate_outline", 0>>>>
             /\ UNCHANGED dbvars
       /\ OutlineStageFailed =>
             /\ pc \in {"raised", "returned"} /\ pc' \in {"raised", "returned"}
             /\ visited' = visited /\ llm_calls' = llm_calls
             /\ UNCHANGED <<chapters, chapter_summaries, notifications, storage>>
             /\ \/ books' = books
                \/ books' = [books EXCEPT ![book_id].book_output_status = "error"]]_vars

\* the invocation has ended in the except branch of process_book
C26_Witness ==
    /\ OutlineStageFailed
    /\ pc = "returned"
    /\ llm_calls = 1
    /\ books[book_id].book_output_status = "error"
    /\ books[book_id].outline = NoText
    /\ notifications = <<>>

----------------------------------------------------------------------------
(* C27 *)

\* the events compile_book sets when it returns (compile_book.py 40, 137)
CompileEvents == {"book_compiled", "final_review_not_ready"}

\* C27: an invocation whose graph run has ended without an error has run
\* notify last, with an event set, and has written exactly one audit record,
\* the one of that event; the compile router always finds one of the two
\* events of compile_book, so its branch to END is not taken.
C27_EndsThroughNotify ==
    /\ pc = "END" =>
          /\ visited # <<>> /\ Last(visited) = <<"notify", 0>>
          /\ state.event \notin {None, ""}
          /\ Len(notifications) = 1
          /\ notifications[1] = AuditRecord(state.event)
          /\ delivery.insert = "ok"
    /\ pc = "router_after_compile" =>
          /\ state.event \in CompileEvents
          /\ RouteAfterCompile(state.event) = "notify"

\* a run that ended after the compile stage found the final review not ready
C27_Witness ==
    /\ pc = "END"
    /\ state.event = "final_review_not_ready"
    /\ Entries("compile_book") = 1
    /\ Len(notifications) = 1
    /\ notifications[1].type = "final_review_not_ready"

----------------------------------------------------------------------------
(* C28 *)

\* the outline stage runs on non-empty outline-request notes
OutlineStageRuns ==
    /\ pc = "generate_outline" /\ visited' # visited
    /\ Truthy(state.notes_on_outline_before)

\* C28: every invocation enters the outline stage first, and whenever the
\* outline-request notes are non-empty the stage calls the model and, unless
\* it fails, stores the reply as the outline, outline_status generated and the
\* configured chapter count, whatever outline and outline_status were stored.
C28_OutlineRegenerated ==
    [][/\ (pc = "start" /\ pc' # pc) => pc' \in {"generate_outline", "raised"}
       /\ visited' # <<>> => visited'[1] = <<"generate_outline", 0>>
       /\ OutlineStageRuns =>
             /\ llm_calls' = llm_calls + 1
             /\ pc' = "router_after_outline" =>
                   /\ books'[book_id].outline \in {Strip(t) : t \in OutlineSamples}
                   /\ books'[book_id].outline = state'.outline
                   /\ books'[book_id].outline_status = "generated"
                   /\ books'[book_id].total_chapters = get_target_chapter_count
                   /\ state'.event = "outline_generated"]_vars

\* the second invocation for a book in one pass has generated the outline
\* again, the first one having stored an outline and a chapter
C28_Witness ==
    /\ processed = <<"b1", "b1">>
    /\ pc = "router_after_outline"
    /\ state.event = "outline_generated"
    /\ llm_calls = 1
    /\ keyed["b1"][1].runs = 1
    /\ books["b1"].outline_status = "generated"

----------------------------------------------------------------------------
(* C29 *)

\* how many of the first j stage entries of the invocation are entries of the
\* chapter stage
ChapterEntriesUpTo(j) ==
    Cardinality({i \in 1..j : visited[i][1] = "generate_next_chapter"})

\* chapter i was generated and stored by the running invocation
GeneratedInInvocation(i) ==
    /\ i <= Len(state.chapter_summaries)
    /\ state.chapter_summaries[i].chapter_number = i
    /\ state.chapter_summaries[i].summary = chapter_summaries[book_id][i]
    /\ chapters[book_id][i].content # NoText
    /\ keyed[book_id][i].runs >= 1
    /\ keyed[book_id][i].content = chapters[book_id][i].content
    /\ keyed[book_id][i].summary = chapter_summaries[book_id][i]

\* C29: in every invocation the chapter stage is entered first with chapter
\* 1, whatever chapters and summaries are stored, and then with 2, 3, ... in
\* turn; when it is entered with chapter k, the invocation has generated and
\* stored chapters 1..k-1 anew, with one model call each.
C29_StartsAtChapterOne ==
    /\ \A j \in 1..Len(visited) :
          visited[j][1] = "generate_next_chapter" =>
             /\ visited[j][2] = ChapterEntriesUpTo(j)
             /\ \A i \in 1..(visited[j][2] - 1) : GeneratedInInvocation(i)
             /\ llm_calls >= visited[j][2]
    /\ pc = "generate_next_chapter" =>
          state.current_chapter_number = ChapterEntriesUpTo(Len(visited)) + 1

\* a re-run for a book stopped at chapter 2 has replaced the stored chapter 1
\* and its summary by another text and has come to chapter 2 again
C29_Witness ==
    /\ pc = "router_after_chapter"
    /\ Last(visited) = <<"generate_next_chapter", 2>>
    /\ state.event = "waiting_for_chapter_notes"
    /\ chapters[book_id][1].content = SplitChapter(CHOOSE t \in RewriteSamples : TRUE).content
    /\ chapters[book_id][1].content # StoredChapter.content
    /\ chapter_summaries[book_id][1] # StoredChapter.summary
    /\ keyed[book_id][1].runs = 2

----------------------------------------------------------------------------
(* C30 *)

CompileStageEntered ==
    pc = "compile_book" \/ \E j \in 1..Len(visited) : visited[j][1] = "compile_book"

\* C30: whenever the compile stage is entered, the current chapter index is
\* above the total chapter count, and for every chapter 1..total the running
\* invocation has entered the chapter stage, called the model and stored a
\* chapter body and a summary.
C30_CompileAfterAllChapters ==
    CompileStageEntered =>
       /\ state.current_chapter_number > state.total_chapters
       /\ \A i \in 1..state.total_chapters :
             /\ GeneratedInInvocation(i)
             /\ \E j \in 1..Len(visited) : visited[j] = <<"generate_next_chapter", i>>
       /\ state.total_chapters >= 0 => llm_calls = state.total_chapters + 1
       /\ state.total_chapters = get_target_chapter_count

\* the compile stage is entered after three chapters
C30_Witness ==
    /\ pc = "compile_book"
    /\ state.total_chapters = 3
    /\ state.current_chapter_number = 4
    /\ \A i \in 1..3 : chapter_summaries[book_id][i] # NoText

----------------------------------------------------------------------------
(* C31 *)

\* C31: the chapter stage never calls the model for a chapter whose stored
\* gating flag is yes when the stage looks it up, whether the lookup returns
\* or raises.
C31_NoCallOnYes ==
    [][(ChapterStageRuns /\ StoredStatus(state.current_chapter_number) = "yes") =>
          llm_calls' = llm_calls]_vars

----------------------------------------------------------------------------
(* C32 *)

\* compile_book has returned book_compiled in the running invocation
CompiledInInvocation ==
    /\ state.event = "book_compiled"
    /\ \E j \in 1..Len(visited) : visited[j][1] = "compile_book"

\* C32 as stated: once compile_book has set the output status ready, it is
\* ready when process_book returns, also when notify raised.
C32_AsStated ==
    (pc = "returned" /\ CompiledInInvocation) =>
        books[book_id].book_output_status = "ready"

\* C32 amended: after compile_book has set the output status ready, every
\* step keeps it ready but one: when notify raises (the audit insert fails),
\* the except branch of process_book sets it to error, unless that update
\* fails as well; the output URL stays the one compile_book stored.
C32_ReadyUnlessNotifyRaises ==
    [][(CompiledInInvocation /\ books[book_id].book_output_status = "ready") =>
          /\ books'[book_id].output_file_url = books[book_id].output_file_url
          /\ books[book_id].output_file_url = "docx_url"
          /\ IF pc = "raised"
             THEN /\ Last(visited) = <<"notify", 0>>
                  /\ delivery.insert = "failed"
                  /\ pc' = "returned" =>
                        books'[book_id].book_output_status \in {"ready", "error"}
             ELSE books'[book_id].book_output_status = "ready"]_vars

\* the book was compiled, the audit insert failed, and the book is marked error
C32_Witness ==
    /\ pc = "returned"
    /\ CompiledInInvocation
    /\ Last(visited) = <<"notify", 0>>
    /\ books[book_id].book_output_status = "error"
    /\ books[book_id].output_file_url = "docx_url"
    /\ storage # {}

----------------------------------------------------------------------------
(* C33 *)

\* run_worker_once gets a non-empty list from find_pending_books
DiscoveryStep == wpc = "idle" /\ mode # "ids" /\ wpc' = "pass"

\* C33: with no edits and no imports, a book with output status ready matches
\* none of the discovery filters and is in the list of no pass, and a pass
\* that discovery started never brings a book to the compile stage that was
\* compiled before.
C33_CompiledNotReselected ==
    [][/\ \A b \in BookIds : books[b].book_output_status = "ready" => b \notin Matching
       /\ DiscoveryStep =>
             \A b \in Range(batch') : books[b].book_output_status # "ready"
       /\ (mode # "ids" /\ pc = "compile_book" /\ visited' # visited) =>
             /\ books[book_id].book_output_status # "ready"
             /\ File(book_id, "txt") \notin storage]_vars

\* the second pass of the loop has a list, and a book compiled in the first
\* pass is not in it
C33_Witness ==
    /\ JustDiscovered /\ mode = "loop" /\ polls = 1
    /\ \E b \in BookIds \ Range(batch) :
          /\ books[b].book_output_status = "ready"
          /\ File(b, "docx") \in storage

----------------------------------------------------------------------------
(* worker.py: run_worker_loop with every service answering *)

\* compile_book.py 93-112: the PDF story cannot be built from the stored
\* chapter text; no service is involved
compile_book_story_raises == compile_book_raises /\ pdf' = "assemble_failed"

\* worker.py 95-105: the except branch, its update going through
process_book_marks_error ==
    process_book_except /\ books'[book_id].book_output_status = "error"

\* sync_excel.py 136-164: rows as an import leaves them; an empty notes cell
\* is stored as the empty string (sync_excel.py 138), not as NULL
LoopRows ==
    {r \in ImportedRows : /\ r.notes_on_outline_before \in {<<>>, <<"x">>}
                          /\ r.final_review_notes = NoText}

\* CHAPTER_TARGET_COUNT of the worker process
LoopTargets == {1, 2}

\* worker.py 134-146 and 183-186: `python worker.py` without arguments
InitLoop ==
    /\ books \in [BookIds -> LoopRows]
    /\ chapters = [x \in BookIds |-> [n \in ChapterNumbers |-> NoChapter]]
    /\ chapter_summaries = [x \in BookIds |-> [n \in ChapterNumbers |-> NoText]]
    /\ notifications = <<>>
    /\ storage = {}
    /\ chapter_target \in LoopTargets
    /\ book_id = "b1"
    /\ state = EmptyState
    /\ pc = "returned"
    /\ llm_calls = 0 /\ visited = <<>> /\ reads = <<>> /\ edits = 0
    /\ mode = "loop" /\ limit = DefaultLimit /\ explicit_ids = <<>>
    /\ wpc = "idle"
    /\ pending = <<>> /\ batch = <<>> /\ processed = <<>> /\ polls = 0
    /\ trail = NoTrail
    /\ delivery = NoDelivery /\ pdf = "none"
    /\ keyed = [x \in BookIds |-> [n \in ChapterNumbers |-> NoKeyed]]
    /\ catalog = [x \in BookIds |-> ImportedEntry] /\ sync = NoSync

\* the worker and the stages, none of their calls to the datastore, the
\* model or the bucket raising
NextLoop ==
    \/ run_worker_once
    \/ process_book_starts
    \/ run_worker_once_returns
    \/ LoadInitialState
    \/ generate_outline
    \/ router_after_outline
    \/ generate_next_chapter
    \/ router_after_chapter
    \/ compile_book
    \/ compile_book_story_raises
    \/ router_after_compile
    \/ notify
    \/ process_book_returns
    \/ process_book_marks_error

\* the worker is one sequential process: whenever it has a next step, it
\* takes it
SpecLoop == InitLoop /\ [][NextLoop]_vars /\ WF_vars(NextLoop)

----------------------------------------------------------------------------
(* C34 *)

\* C34 (finite-run form): in the polling loop, with no edits and no service
\* failures, a discovery pass selects no book that an earlier pass has
\* already processed and notified about, so that every book is processed
\* once and the set of discovered books becomes and stays empty.
C34_NoRediscovery ==
    [][DiscoveryStep =>
          \A b \in Range(batch') :
             \A j \in 1..Len(notifications) : notifications[j].book_id # b]_vars

----------------------------------------------------------------------------
(* C35 *)

\* sync_excel.py 136-164: a book imported with outline-request notes and the
\* three gating cells empty
DefaultImported(b) ==
    /\ Truthy(books[b].notes_on_outline_before)
    /\ books[b].status_outline_notes = NoNotesNeeded
    /\ books[b].chapter_notes_status = NoNotesNeeded
    /\ books[b].final_review_notes_status = NoNotesNeeded

\* worker.py 79-105: process_book comes back to the loop of the pass
ProcessBookEnds == wpc = "pass" /\ pc \in {"END", "raised"} /\ pc' = "returned"

\* C35 (finite-run form): in the polling loop, with no service failures, the
\* run the worker makes for a book imported with non-empty outline-request
\* notes and every gating flag at no_notes_needed leaves the book with
\* output status ready.
C35_DefaultBookReady ==
    [][(ProcessBookEnds /\ DefaultImported(book_id)) =>
          books'[book_id].book_output_status = "ready"]_vars

----------------------------------------------------------------------------
(* C36: the worker run for two books that differ in the book-level
   chapter_notes_status only *)

\* sync_excel.py 143-158: what the column chapter_notes_status of a sheet can
\* hold; an empty cell is stored as no_notes_needed
BookLevelFlags == {"yes", "no", "no_notes_needed"}

\* chapters.py 84-101: the row of chapter 1 as an editor may have prepared it
\* before the run: none, or a row without text carrying a flag
TwinChapterRows ==
    {NoChapter} \cup
    {[present |-> TRUE, chapter_notes_status |-> v, content |-> NoText] :
        v \in {None, "yes", "no", "no_notes_needed"}}

\* worker.py 149-186: `python worker.py --book-id b1 b2` for two books with
\* the same row, but for chapter_notes_status, and the same chapter rows
InitTwin ==
    /\ \E r \in LoopRows, v \in BookLevelFlags :
          books = [x \in BookIds |->
                     IF x = "b1" THEN r ELSE [r EXCEPT !.chapter_notes_status = v]]
    /\ \E c \in TwinChapterRows :
          /\ chapters = [x \in BookIds |->
                           [n \in ChapterNumbers |-> IF n = 1 THEN c ELSE NoChapter]]
          /\ keyed = [x \in BookIds |->
                        [n \in ChapterNumbers |->
                            IF n = 1 /\ c.present
                            THEN [NoKeyed EXCEPT !.chapters = 1] ELSE NoKeyed]]
    /\ chapter_summaries = [x \in BookIds |-> [n \in ChapterNumbers |-> NoText]]
    /\ notifications = <<>>
    /\ storage = {}
    /\ chapter_target \in LoopTargets
    /\ book_id = "b1"
    /\ state = EmptyState
    /\ pc = "returned"
    /\ llm_calls = 0 /\ visited = <<>> /\ reads = <<>> /\ edits = 0
    /\ mode = "ids" /\ limit = DefaultLimit /\ explicit_ids = <<"b1", "b2">>
    /\ wpc = "idle"
    /\ pending = <<>> /\ batch = <<>> /\ processed = <<>> /\ polls = 0
    /\ trail = NoTrail
    /\ delivery = NoDelivery /\ pdf = "none"
    /\ catalog = [x \in BookIds |-> ImportedEntry] /\ sync = NoSync

\* chapters.py 47-164 with the lookup of the chapter's row (84-97) returning
generate_next_chapter_answered ==
    generate_next_chapter /\ (reads' = reads \/ Last(reads').lookup_ok)

\* compile_book.py 17-139 with the PDF rendered and uploaded (114-126)
compile_book_uploaded == compile_book /\ pdf' # "skipped"

\* both runs get the same answers from the services: every call returns, and
\* the model's replies are the same (ChapterSamples, OutlineSamples)
NextTwin ==
    \/ run_worker_once
    \/ process_book_starts
    \/ run_worker_once_returns
    \/ LoadInitialState
    \/ generate_outline
    \/ router_after_outline
    \/ generate_next_chapter_answered
    \/ router_after_chapter
    \/ compile_book_uploaded
    \/ router_after_compile
    \/ notify
    \/ process_book_returns

SpecTwin == InitTwin /\ [][NextTwin]_vars

\* worker.py 128-131: process_book has returned for both books of the pass
TwinDone ==
    wpc = "pass" /\ pc = "returned" /\ pending = <<>> /\ processed = <<"b1", "b2">>

\* what an invocation for book b showed and left: the stages it visited, its
\* event, and the records of b in the tables and the bucket
RunOf(b) ==
    [visited |-> trail[b].visited,
     event |-> trail[b].event,
     book |-> [books[b] EXCEPT !.chapter_notes_status = None],
     chapters |-> chapters[b],
     chapter_summaries |-> chapter_summaries[b],
     upserts |-> keyed[b],
     files |-> {ext \in {"txt", "docx", "pdf"} : File(b, ext) \in storage},
     audit |-> {notifications[j].type :
                   j \in {i \in 1..Len(notifications) : notifications[i].book_id = b}},
     audits |-> Cardinality({i \in 1..Len(notifications) : notifications[i].book_id = b})]

\* C36: two invocations whose books differ in the book-level
\* chapter_notes_status only visit the same stages, end with the same event
\* and leave the same records in the datastore and the bucket.
C36_BookLevelFlagUnread == TwinDone => RunOf("b1") = RunOf("b2")

C36_Witness ==
    /\ TwinDone
    /\ books["b1"].chapter_notes_status = "no_notes_needed"
    /\ books["b2"].chapter_notes_status = "yes"
    /\ trail["b2"].event = "book_compiled"
    /\ \E j \in 1..Len(trail["b2"].visited) :
          trail["b2"].visited[j][1] = "generate_next_chapter"

----------------------------------------------------------------------------
(* C37 *)

\* sync_excel.py 166-173, sync_sheets.py 156-165: this pass of the import
\* loop has written record r
ImportedNow(r) == sync'.book_ids = Append(sync.book_ids, r)

\* C37: the import of a row that matches an existing book leaves that book
\* with outline_status pending and book_output_status not_started, whatever
\* the two were, and so among the books the first discovery query selects.
C37_ReimportResets ==
    [][\A r \in BookIds :
          (catalog[r].present /\ ImportedNow(r)) =>
             /\ books'[r].outline_status = "pending"
             /\ books'[r].book_output_status = "not_started"
             /\ r \in PendingOutline']_vars

C37_Witness ==
    /\ sync.book_ids # <<>> /\ Last(sync.book_ids) = "b1"
    /\ books["b1"] = Imported(CompiledRow, <<"x">>)
    /\ books["b1"].outline # NoText /\ books["b1"].output_file_url = "docx_url"
    /\ "b1" \in PendingOutline

====
